---- MODULE Spec2Model ----
(***************************************************************************)
(* Model of the konypv media pipeline scripts.                             *)
(*   sync_pools.py      : lock-protected pool synchronisation (rsync)      *)
(*   wipe_sdcard.py     : verify a card against the media pool, then wipe  *)
(*   sdcard_to_lacie.py : ingest a card into a new dated bin               *)
(*   proxy_packager.py  : package proxy folders into a dated _sent bucket  *)
(***************************************************************************)
EXTENDS Integers, Sequences, FiniteSets, TLC

(* ----------------------------- bounds --------------------------------- *)
\* number of distinct file contents a pool file can initially have
MaxContent == 2

\* the sync_pools.py invocations (pids): a lock holder and a contender
Procs == {1, 2}

(* ------------------------- configuration ------------------------------ *)
\* Paths are sequences of components below "/".
MEDIA_POOL_ROOT == <<"Volumes", "VM", "MEDIA">>
PROXY_POOL_ROOT == <<"Volumes", "VP", "PROXY">>
\* user_dest_roots[name] = /Volumes/VD
user_dest_root == <<"Volumes", "VD">>
\* Config.destination_roots_for
destination_roots_for == <<user_dest_root \o <<"MEDIA_POOL">>, user_dest_root \o <<"PROXY_POOL">>>>
dest_media_root == destination_roots_for[1]
dest_proxy_root == destination_roots_for[2]
\* the user chosen in choose_user
name == "u1"

PoolRoots == {MEDIA_POOL_ROOT, PROXY_POOL_ROOT, dest_media_root, dest_proxy_root}
Drives == {<<"Volumes", "VM">>, <<"Volumes", "VP">>, <<"Volumes", "VD">>}

\* Config.backsync_globs default ["*.mp4", "*.MP4"]: a glob *.e matches extension e
backsync_globs == {"mp4", "MP4"}

\* relative file paths that can exist below a pool root
Paths == { [dir |-> "u1", stem |-> "x", ext |-> "mp4"],
           [dir |-> "u1", stem |-> "n", ext |-> "txt"],
           [dir |-> "zz", stem |-> "y", ext |-> "MP4"] }

EmptyTree == [f \in Paths |-> 0]

(* --------------------------- path helpers ----------------------------- *)
\* Path.parent
Parent(p) == SubSeq(p, 1, Len(p) - 1)

\* every directory mkdir(parents=True) may have to create for p
Prefixes(p) == { SubSeq(p, 1, k) : k \in 1..Len(p) }

\* the pool root a source or destination directory lies in
RootOf(p) == CHOOSE r \in PoolRoots : Len(r) <= Len(p) /\ SubSeq(p, 1, Len(r)) = r

\* main, lines 315-323: the (src, dst, label) pairs of a menu choice
Pairs(m) ==
    (IF m \in {1, 3}
       THEN << [src |-> MEDIA_POOL_ROOT \o <<name>>, dst |-> dest_media_root \o <<name>>,
                label |-> [pool |-> "MEDIA", scope |-> "user"]] >>
       ELSE << >>)
    \o
    (IF m \in {2, 3}
       THEN << [src |-> PROXY_POOL_ROOT \o <<name>>, dst |-> dest_proxy_root \o <<name>>,
                label |-> [pool |-> "PROXY", scope |-> "user"]] >>
       ELSE << >>)
    \o
    (IF m = 4
       THEN << [src |-> MEDIA_POOL_ROOT, dst |-> dest_media_root,
                label |-> [pool |-> "MEDIA", scope |-> "all"]] >>
       ELSE << >>)
    \o
    (IF m = 5
       THEN << [src |-> PROXY_POOL_ROOT, dst |-> dest_proxy_root,
                label |-> [pool |-> "PROXY", scope |-> "all"]] >>
       ELSE << >>)

\* label.endswith("_all")
EndsWithAll(label) == label.scope = "all"

\* main, line 328: top = dst if label.endswith("_all") else dst.parent
Top(pair) == IF EndsWithAll(pair.label) THEN pair.dst ELSE Parent(pair.dst)

\* main, lines 326-329: the set of roots to lock
Locks(m) == { Top(Pairs(m)[i]) : i \in 1..Len(Pairs(m)) }

\* all orders in which the set `locks` can be iterated (line 331)
Orders(S) == { s \in [1..Cardinality(S) -> S] : \A i, j \in 1..Cardinality(S) : i # j => s[i] # s[j] }

\* the files of a pool root that lie below directory d of that root
InSubtree(f, d) == d \in PoolRoots \/ f.dir = d[Len(d)]


(* ------------------------------ state --------------------------------- *)
VARIABLES
    dirs,       \* the directories that exist (paths)
    sentinel,   \* pool root -> pid written in <root>/.sync.lock, 0 when the file is absent
    tree,       \* pool root -> (relative file path -> content, 0 when the file is absent)
    pc,         \* invocation -> position in main()
    mode,       \* invocation -> menu choice (0 before choose_menu)
    order,      \* invocation -> lock_ctxs, the roots in the order they are entered
    entered,    \* invocation -> number of lock_ctxs whose __enter__ returned
    released,   \* invocation -> number of lock_ctxs whose __exit__ ran
    task,       \* invocation -> index in pairs of the task being run
    missing,    \* invocation -> the candidate list of the current task's reverse scan
    rcs,        \* invocation -> exit codes rc, rc2, rc3 of the latest tool invocations
    outcome,    \* invocation -> how main() ended or is about to end
    ran,        \* history: invocation -> the tool invocations made, <<task, direction>>
    wrote,      \* history: invocation -> the roots whose sentinel it wrote
    made,       \* history: invocation -> the directories it created
    flags,      \* Config.rsync_flags, as the rule by which rsync updates existing files
    logs,       \* the transcript files under <root>/_reports/sync_logs
    answer      \* invocation -> what the operator typed at its latest back-sync prompt

syncVars == <<dirs, sentinel, tree, pc, mode, order, entered, released, task, missing,
              rcs, outcome, ran, wrote, made, flags, logs, answer>>

\* wipe_sdcard.py
VARIABLES
    card,          \* the files on the card: records dir, name, size
    pool,          \* the files in the media pool
    wpc,           \* position in wipe_sdcard.main()
    card_files,    \* main: the listed card files (paths)
    root_index,    \* main: ContentKey -> paths, built by index_media_root
    wipe_present,  \* main: present
    wipe_missing,  \* main: missing
    typed,         \* what the operator typed at the last prompt
    wresult,       \* how main() ended
    vanished       \* number of card files that disappeared during the run

wipeVars == <<card, pool, wpc, card_files, root_index, wipe_present, wipe_missing, typed, wresult, vanished>>

\* sdcard_to_lacie.py
VARIABLES
    ifiles,        \* the files under MEDIA_POOL_ROOT: records dir, name, size
    ibins,         \* the names of the directories directly under MEDIA_POOL
    roll,          \* the files under DAILIES_ROLL
    ing,           \* run -> the locals of main() and its position
    ihist          \* history: run -> what the run allocated and where it copied

ingestVars == <<ifiles, ibins, roll, ing, ihist>>

\* proxy_packager.py
VARIABLES
    sent,          \* directory name under _sent -> the names of the folders in it
    pk,            \* run -> the locals of main() and its position
    phist          \* history: run -> what the run found and where it transferred

packVars == <<sent, pk, phist>>

\* sync_pools.py, rsync_list_missing_from_src_mp4_only taken alone
VARIABLES
    stdout,        \* the lines the dry run prints (proc.stdout)
    scan_pos,      \* the number of lines read so far
    scan_rc,       \* the exit code proc.wait() returns
    candidates,    \* the list `candidates`
    scan_ret       \* the returned tuple, << >> while the function runs

scanVars == <<stdout, scan_pos, scan_rc, candidates, scan_ret>>

\* the variables the steps of sync_pools.py leave alone
notSync == <<wipeVars, ingestVars, packVars, scanVars>>

\* the variables the steps of wipe_sdcard.py leave alone
notWipe == <<syncVars, ingestVars, packVars, scanVars>>

\* the variables the steps of sdcard_to_lacie.py leave alone
notIngest == <<syncVars, wipeVars, packVars, scanVars>>

\* the variables the steps of proxy_packager.py leave alone
notPack == <<syncVars, wipeVars, ingestVars, scanVars>>

\* the variables the parsing loop of the reverse scan leaves alone
notScan == <<syncVars, wipeVars, ingestVars, packVars>>

NoRcs == [rc |-> 0, rc2 |-> 0, rc3 |-> 0]

\* the pair the invocation is working on
Pair(p) == Pairs(mode[p])[task[p]]

\* the root whose _LockCtx is entered next
NextRoot(p) == order[p][entered[p] + 1]

\* the roots this invocation has entered and not yet exited (lines 331-339)
Holding(p) == { order[p][i] : i \in 1..(IF released[p] > 0 THEN Len(order[p]) - released[p] ELSE entered[p]) }

(* ------------------------- pure helpers ------------------------------- *)
\* Config.excludes default []: the extensions the exclude file filters out
excludes == {}

Excluded(f) == f.ext \in excludes

\* ensure_mounted, lines 58-66
ensure_mounted(p, ds) ==
    IF p[1] = "Volumes" /\ Len(p) >= 2 /\ SubSeq(p, 1, 2) \notin ds
      THEN [ok |-> FALSE, dirs |-> ds]
      ELSE [ok |-> TRUE, dirs |-> ds \cup Prefixes(Parent(p))]

\* files rsync SRC/ -> DST/ may transfer in rsync_copy (lines 164-168)
ForwardSet(src, srcTree) ==
    { f \in Paths : srcTree[f] # 0 /\ InSubtree(f, src) /\ ~Excluded(f) }

\* Config.__init__, lines 140-151: the flag sets, told apart by what rsync does
\* with a file that exists on both sides with different content.  The defaults
\* carry --append or --append-verify (a file is completed when the receiving
\* side is shorter); the minimal set "-r --progress" transfers it again;
\* configured flags may hold --ignore-existing.
FlagSets == {"append", "overwrite", "ignore_existing"}

\* whether rsync with flag set fl transfers a file with content s over content d
\* (a content number stands for the length of the file as well)
Updates(fl, s, d) ==
    /\ s # d
    /\ CASE fl = "overwrite" -> TRUE
         [] fl = "append" -> d < s
         [] OTHER -> FALSE

\* the files a complete run of rsync_copy SRC/ -> DST/ writes at DST
ForwardWrites(fl, src, srcTree, dstTree) ==
    { f \in ForwardSet(src, srcTree) : dstTree[f] = 0 \/ Updates(fl, srcTree[f], dstTree[f]) }

\* log_path_for, lines 75-78 (the timestamp of the name is left out)
log_path_for(dest_root, nm, label) == [root |-> dest_root, user |-> nm, label |-> label]

\* lines 264 and 284: dst if label.endswith("_all") else dst.parent
LogRoot(pair) == IF EndsWithAll(pair.label) THEN pair.dst ELSE Parent(pair.dst)

\* line 264: log_fwd
log_fwd(pair) == log_path_for(LogRoot(pair), name, <<pair.label, "forward">>)

\* line 284: log_back
log_back(pair) == log_path_for(LogRoot(pair), name, <<pair.label, "backsync_mp4">>)

\* the include filter of the reverse scan and of the back-sync (lines 180-183, 218-221)
MatchesGlobs(f) == f.ext \in backsync_globs

\* a dry run without --ignore-existing: files that differ are reported as well
DryRunSet_differing(dst, dstTree, srcTree) ==
    { f \in Paths : dstTree[f] # 0 /\ InSubtree(f, dst) /\ ~Excluded(f)
                    /\ MatchesGlobs(f) /\ srcTree[f] # dstTree[f] }

\* lines 186-189: files the dry run rsync -an -i --ignore-existing DST/ -> SRC/ with
\* the include filter reports as to be transferred
DryRunSet(dst, dstTree, srcTree) ==
    { f \in Paths : dstTree[f] # 0 /\ InSubtree(f, dst) /\ ~Excluded(f)
                    /\ MatchesGlobs(f) /\ srcTree[f] = 0 }

\* a back-sync command line without --ignore-existing
BackSet_overwrite(dst, dstTree, srcTree) ==
    { f \in Paths : dstTree[f] # 0 /\ InSubtree(f, dst) /\ ~Excluded(f) /\ MatchesGlobs(f) }

\* a back-sync whose include filter holds *.mp4 only
BackSet_lower_only(dst, dstTree, srcTree) ==
    { f \in Paths : dstTree[f] # 0 /\ InSubtree(f, dst) /\ ~Excluded(f)
                    /\ f.ext = "mp4" /\ srcTree[f] = 0 }

\* lines 223-224: files rsync --ignore-existing DST/ -> SRC/ with the include filter transfers
BackSet(dst, dstTree, srcTree) ==
    { f \in Paths : dstTree[f] # 0 /\ InSubtree(f, dst) /\ ~Excluded(f)
                    /\ MatchesGlobs(f) /\ srcTree[f] = 0 }

\* the tree of the receiving side after the files S were transferred
Transfer(fromTree, toTree, S) == [f \in Paths |-> IF f \in S THEN fromTree[f] ELSE toTree[f]]

\* rsync lists files in path order
PathSeq == << [dir |-> "u1", stem |-> "n", ext |-> "txt"],
              [dir |-> "u1", stem |-> "x", ext |-> "mp4"],
              [dir |-> "zz", stem |-> "y", ext |-> "MP4"] >>

InSet(S) == [f \in Paths |-> f \in S]

\* the candidates in listing order
Listing(S) == LET member == InSet(S) IN SelectSeq(PathSeq, LAMBDA f : member[f])

\* str.strip().lower() on an answer given as a sequence of characters
Lower(c) == CASE c = "Y" -> "y" [] c = "E" -> "e" [] c = "S" -> "s" [] c = "N" -> "n"
              [] c = "D" -> "d" [] c = "L" -> "l" [] c = "T" -> "t" [] OTHER -> c

RECURSIVE LStrip(_)
LStrip(s) == IF s # << >> /\ Head(s) = " " THEN LStrip(Tail(s)) ELSE s

RECURSIVE RStrip(_)
RStrip(s) == IF s # << >> /\ s[Len(s)] = " " THEN RStrip(SubSeq(s, 1, Len(s) - 1)) ELSE s

StripLower(s) == LET t == RStrip(LStrip(s)) IN [i \in 1..Len(t) |-> Lower(t[i])]

\* confirm, lines 43-48
confirm(ans, default_yes) ==
    IF StripLower(ans) = << >> /\ default_yes THEN TRUE
    ELSE StripLower(ans) \in { <<"y">>, <<"y", "e", "s">> }

\* what the operator may type at the back-sync prompt
Answers == { << >>, <<"y">>, <<"Y", "e", "s", " ">>, <<"n">> }


\* line.rstrip("\n"), line 194
RECURSIVE RStripNl(_)
RStripNl(s) == IF s # << >> /\ s[Len(s)] = "\n" THEN RStripNl(SubSeq(s, 1, Len(s) - 1)) ELSE s

\* " " in line, line 200
HasSpace(s) == \E i \in DOMAIN s : s[i] = " "

\* line.split(" ", 1), line 202
SplitOnce(s) ==
    LET i == CHOOSE j \in DOMAIN s : s[j] = " " /\ \A k \in 1..(j - 1) : s[k] # " "
    IN  [code |-> SubSeq(s, 1, i - 1), path |-> SubSeq(s, i + 1, Len(s))]

\* a loop body that takes every line with a code, whatever its type character
scan_line_any_type(cands, raw) ==
    LET line == RStripNl(raw)
    IN  IF line = << >> THEN cands
        ELSE IF ~HasSpace(line) THEN cands
        ELSE Append(cands, SplitOnce(line).path)

\* the loop body, lines 194-205: the candidates after one more line
scan_line(cands, raw) ==
    LET line == RStripNl(raw)
    IN  IF line = << >> THEN cands
        ELSE IF ~HasSpace(line) THEN cands
        ELSE LET code == SplitOnce(line).code
                 path == SplitOnce(line).path
             IN  IF Len(code) >= 2 /\ code[2] = "f" THEN Append(cands, path) ELSE cands

\* p.endswith("/"), line 210
EndsWithSlash(p) == p # << >> /\ p[Len(p)] = "/"

\* lines 206-211: the returned tuple
scan_return(rc, cands) ==
    IF rc # 0 THEN <<rc, << >> >>
    ELSE <<0, SelectSeq(cands, LAMBDA p : ~EndsWithSlash(p))>>

\* the loop of lines 193-205 over all lines of the output
RECURSIVE scan_lines(_, _)
scan_lines(cands, lines) ==
    IF lines = << >> THEN cands ELSE scan_lines(scan_line(cands, Head(lines)), Tail(lines))

\* the characters of the path components in use
Chars(c) == CASE c = "u1" -> <<"u", "1">>
              [] c = "zz" -> <<"z", "z">>
              [] c = "x" -> <<"x">>
              [] c = "n" -> <<"n">>
              [] c = "y" -> <<"y">>
              [] c = "mp4" -> <<"m", "p", "4">>
              [] c = "MP4" -> <<"M", "P", "4">>
              [] c = "txt" -> <<"t", "x", "t">>

\* %n of --out-format, line 187: the path of f relative to the sending directory
RelPath(f, dir) ==
    (IF dir \in PoolRoots THEN Chars(f.dir) \o <<"/">> ELSE << >>) \o Chars(f.stem) \o <<".">> \o Chars(f.ext)

\* %i of --out-format for a new file, a new directory, a directory whose times differ
FileCode == <<">", "f", "+", "+", "+", "+", "+", "+", "+", "+", "+">>
DirCode == <<"c", "d", "+", "+", "+", "+", "+", "+", "+", "+", "+">>
DotDirCode == <<".", "d", ".", ".", "t", ".", ".", ".", ".", ".", ".">>

\* --out-format=%i %n, line 187: one line of output
ItemLine(code, path) == code \o <<" ">> \o path \o <<"\n">>

\* a line rsync prints on stderr (merged into stdout, line 191) when it fails
ErrLine == <<"r", "s", "y", "n", "c", " ", "e", "r", "r", "o", "r", "\n">>

\* the lines of a complete dry run for the files `files` (in listing order);
\* with withDirs the directories rsync touches are itemized as well
RECURSIVE FileLines(_, _, _, _)
FileLines(files, dir, withDirs, prev) ==
    IF files = << >> THEN << >>
    ELSE (IF withDirs /\ dir \in PoolRoots /\ Head(files).dir # prev
            THEN <<ItemLine(DirCode, Chars(Head(files).dir) \o <<"/">>)>> ELSE << >>)
         \o <<ItemLine(FileCode, RelPath(Head(files), dir))>>
         \o FileLines(Tail(files), dir, withDirs, Head(files).dir)

\* lines 186-191: what the dry run prints when it runs to its end
DryRunOutput(dst, dstTree, srcTree, withDirs) ==
    (IF withDirs THEN <<ItemLine(DotDirCode, <<".", "/">>)>> ELSE << >>)
    \o FileLines(Listing(DryRunSet(dst, dstTree, srcTree)), dst, withDirs, "")

(* ------------------------------ Init ---------------------------------- *)
\* the directories that exist when the drives in `mounted` are attached; the
\* destination roots exist only after a first sync (destReady)
InitDirs(mounted, destReady) ==
    {<<"Volumes">>} \cup mounted
    \cup { d \in {MEDIA_POOL_ROOT, PROXY_POOL_ROOT, MEDIA_POOL_ROOT \o <<name>>, PROXY_POOL_ROOT \o <<name>>} :
             SubSeq(d, 1, 2) \in mounted }
    \cup (IF destReady THEN {dest_media_root, dest_proxy_root, dest_media_root \o <<name>>} ELSE {})

\* initial file trees, files only below directories that exist.  With one
\* invocation running every combination of media files and every flag set is
\* tried; with two, the source holds u1/x.mp4, an existing destination holds
\* every file and the flags are the minimal set.
InitTrees(ds, running) ==
    LET medias == IF MEDIA_POOL_ROOT \notin ds THEN {EmptyTree}
                  ELSE IF Cardinality(running) > 1
                         THEN { [f \in Paths |-> IF f = PathSeq[2] THEN 1 ELSE 0] }
                         ELSE [Paths -> {0, 1}]
        dests == IF dest_media_root \notin ds THEN {EmptyTree}
                 ELSE IF Cardinality(running) > 1
                        THEN { [f \in Paths |-> MaxContent] }
                        ELSE [Paths -> 0..MaxContent]
    IN  { [r \in PoolRoots |-> IF r = MEDIA_POOL_ROOT THEN sm
                                ELSE IF r = dest_media_root THEN dm ELSE EmptyTree] :
            sm \in medias, dm \in dests }

SyncInit ==
    \E mounted \in SUBSET Drives, destReady \in BOOLEAN, running \in {{1}, Procs} :
        /\ destReady => user_dest_root \in mounted
        /\ dirs = InitDirs(mounted, destReady)
        /\ tree \in InitTrees(dirs, running)
        /\ sentinel = [r \in PoolRoots |-> 0]
        /\ pc = [p \in Procs |-> IF p \in running THEN "menu" ELSE "exit"]
        /\ mode = [p \in Procs |-> IF p \in running THEN 0 ELSE 6]
        /\ order = [p \in Procs |-> << >>]
        /\ entered = [p \in Procs |-> 0]
        /\ released = [p \in Procs |-> 0]
        /\ task = [p \in Procs |-> 1]
        /\ missing = [p \in Procs |-> << >>]
        /\ rcs = [p \in Procs |-> NoRcs]
        /\ outcome = [p \in Procs |-> IF p \in running THEN "running" ELSE "done"]
        /\ ran = [p \in Procs |-> {}]
        /\ wrote = [p \in Procs |-> {}]
        /\ made = [p \in Procs |-> {}]
        /\ flags \in (IF running = Procs THEN {"overwrite"} ELSE FlagSets)
        /\ logs = {}
        /\ answer = [p \in Procs |-> << >>]

(* ----------------------------- actions -------------------------------- *)
\* main, lines 311-331: choose_menu, build pairs, the lock set and lock_ctxs
ChooseMenu(p) ==
    /\ pc[p] = "menu"
    /\ UNCHANGED notSync
    /\ \E m \in 1..6 :
         /\ mode' = [mode EXCEPT ![p] = m]
         /\ IF m = 6
              THEN /\ pc' = [pc EXCEPT ![p] = "exit"]
                   /\ outcome' = [outcome EXCEPT ![p] = "done"]
                   /\ UNCHANGED order
              ELSE /\ \E o \in Orders(Locks(m)) : order' = [order EXCEPT ![p] = o]
                   /\ pc' = [pc EXCEPT ![p] = "enter"]
                   /\ UNCHANGED outcome
    /\ UNCHANGED <<dirs, sentinel, tree, entered, released, task, missing, rcs, ran, wrote, made,
                 flags, logs, answer>>

\* an __enter__ that writes its pid before looking whether the sentinel is there
LockCtxEnterCheck_clobber(p) ==
    /\ pc[p] = "enter"
    /\ UNCHANGED notSync
    /\ dirs' = dirs \cup Prefixes(NextRoot(p))
    /\ made' = [made EXCEPT ![p] = @ \cup (Prefixes(NextRoot(p)) \ dirs)]
    /\ IF sentinel[NextRoot(p)] # 0
         THEN /\ pc' = [pc EXCEPT ![p] = "exit"]
              /\ outcome' = [outcome EXCEPT ![p] = "LockHeld"]
              /\ sentinel' = [sentinel EXCEPT ![NextRoot(p)] = p]
         ELSE /\ pc' = [pc EXCEPT ![p] = "write"]
              /\ UNCHANGED <<outcome, sentinel>>
    /\ UNCHANGED <<tree, mode, order, entered, released, task, missing, rcs, ran, wrote,
                 flags, logs, answer>>

\* _LockCtx.__enter__, lines 87-90: root.mkdir(parents=True, exist_ok=True), then the
\* existence check of the sentinel.  On a drive that is not attached mkdir either
\* creates the directories on the boot volume or raises OSError (permissions).
LockCtxEnterCheck(p) ==
    /\ pc[p] = "enter"
    /\ UNCHANGED notSync
    /\ LET r == NextRoot(p) IN
         \/ /\ SubSeq(r, 1, 2) \notin dirs
            /\ pc' = [pc EXCEPT ![p] = "exit"]
            /\ outcome' = [outcome EXCEPT ![p] = "OSError"]
            /\ UNCHANGED <<dirs, made>>
         \/ /\ dirs' = dirs \cup Prefixes(r)
            /\ made' = [made EXCEPT ![p] = @ \cup (Prefixes(r) \ dirs)]
            /\ IF sentinel[r] # 0
                 THEN /\ pc' = [pc EXCEPT ![p] = "exit"]
                      /\ outcome' = [outcome EXCEPT ![p] = "LockHeld"]
                 ELSE /\ pc' = [pc EXCEPT ![p] = "write"]
                      /\ UNCHANGED outcome
    /\ UNCHANGED <<sentinel, tree, mode, order, entered, released, task, missing, rcs, ran, wrote,
                 flags, logs, answer>>

\* a main() that enters the task loop after the first lock only
LockCtxEnterWrite_first(p) ==
    /\ pc[p] = "write"
    /\ UNCHANGED notSync
    /\ sentinel' = [sentinel EXCEPT ![NextRoot(p)] = p]
    /\ wrote' = [wrote EXCEPT ![p] = @ \cup {NextRoot(p)}]
    /\ entered' = [entered EXCEPT ![p] = @ + 1]
    /\ pc' = [pc EXCEPT ![p] = "task"]
    /\ UNCHANGED <<dirs, tree, mode, order, released, task, missing, rcs, outcome, ran, made,
                 flags, logs, answer>>

\* _LockCtx.__enter__, lines 91-92: lock.write_text(pid, timestamp); main, lines 332-334
LockCtxEnterWrite(p) ==
    /\ pc[p] = "write"
    /\ UNCHANGED notSync
    /\ sentinel' = [sentinel EXCEPT ![NextRoot(p)] = p]
    /\ wrote' = [wrote EXCEPT ![p] = @ \cup {NextRoot(p)}]
    /\ entered' = [entered EXCEPT ![p] = @ + 1]
    /\ pc' = [pc EXCEPT ![p] = IF entered[p] + 1 = Len(order[p]) THEN "task" ELSE "enter"]
    /\ UNCHANGED <<dirs, tree, mode, order, released, task, missing, rcs, outcome, ran, made,
                 flags, logs, answer>>

\* after a task: the next pair of the loop at line 335, or the finally at line 337.
\* r: the exit codes of the task that ends; they are kept until the next tool
\* invocation assigns rc or the first sentinel is released.
AfterTask(p, r) ==
    /\ task' = [task EXCEPT ![p] = @ + 1]
    /\ rcs' = [rcs EXCEPT ![p] = r]
    /\ IF task[p] < Len(Pairs(mode[p]))
         THEN /\ pc' = [pc EXCEPT ![p] = "task"]
              /\ UNCHANGED outcome
         ELSE /\ pc' = [pc EXCEPT ![p] = "release"]
              /\ outcome' = [outcome EXCEPT ![p] = "done"]

\* sync_pair_forward_then_optional_back, lines 260-262
TaskStart(p) ==
    /\ pc[p] = "task"
    /\ UNCHANGED notSync
    /\ LET s == ensure_mounted(Pair(p).src, dirs)
           d == ensure_mounted(Pair(p).dst, s.dirs)
       IN  IF s.ok /\ d.ok
             THEN /\ dirs' = d.dirs \cup Prefixes(Pair(p).dst)
                  /\ made' = [made EXCEPT ![p] = @ \cup ((d.dirs \cup Prefixes(Pair(p).dst)) \ dirs)]
                  /\ pc' = [pc EXCEPT ![p] = "forward"]
                  /\ UNCHANGED <<outcome, rcs>>
             ELSE /\ dirs' = s.dirs
                  /\ made' = [made EXCEPT ![p] = @ \cup (s.dirs \ dirs)]
                  /\ pc' = [pc EXCEPT ![p] = "release"]
                  /\ rcs' = [rcs EXCEPT ![p] = NoRcs]
                  /\ outcome' = [outcome EXCEPT ![p] = "VolumeNotMounted"]
    /\ UNCHANGED <<sentinel, tree, mode, order, entered, released, task, missing, ran, wrote,
                 flags, logs, answer>>

\* a forward sync whose non-zero exit is fatal (die) instead of a warning
Forward_fatal(p) ==
    /\ pc[p] = "forward"
    /\ UNCHANGED notSync
    /\ LET sr == RootOf(Pair(p).src)
           dr == RootOf(Pair(p).dst)
           all == ForwardWrites(flags, Pair(p).src, tree[sr], tree[dr])
       IN  \E rc \in {0, 1}, S \in SUBSET all :
             /\ rc = 0 => S = all
             /\ tree' = [tree EXCEPT ![dr] = Transfer(tree[sr], tree[dr], S)]
             /\ IF rc = 0
                  THEN /\ pc' = [pc EXCEPT ![p] = "reverse"]
                       /\ rcs' = [rcs EXCEPT ![p] = [rc |-> rc, rc2 |-> 0, rc3 |-> 0]]
                       /\ UNCHANGED outcome
                  ELSE /\ pc' = [pc EXCEPT ![p] = "release"]
                       /\ rcs' = [rcs EXCEPT ![p] = NoRcs]
                       /\ outcome' = [outcome EXCEPT ![p] = "ToolFailure"]
    /\ ran' = [ran EXCEPT ![p] = @ \cup {<<task[p], "forward">>}]
    /\ logs' = logs \cup {log_fwd(Pair(p))}
    /\ UNCHANGED <<dirs, sentinel, mode, order, entered, released, task, missing, wrote, made,
                 flags, answer>>

\* a forward sync whose non-zero exit skips the reverse scan of the task
Forward_skip(p) ==
    /\ pc[p] = "forward"
    /\ UNCHANGED notSync
    /\ LET sr == RootOf(Pair(p).src)
           dr == RootOf(Pair(p).dst)
           all == ForwardWrites(flags, Pair(p).src, tree[sr], tree[dr])
       IN  \E rc \in {0, 1}, S \in SUBSET all :
             /\ rc = 0 => S = all
             /\ tree' = [tree EXCEPT ![dr] = Transfer(tree[sr], tree[dr], S)]
             /\ IF rc = 0
                  THEN /\ pc' = [pc EXCEPT ![p] = "reverse"]
                       /\ rcs' = [rcs EXCEPT ![p] = [rc |-> rc, rc2 |-> 0, rc3 |-> 0]]
                       /\ UNCHANGED <<outcome, task>>
                  ELSE AfterTask(p, [rc |-> rc, rc2 |-> 0, rc3 |-> 0])
    /\ ran' = [ran EXCEPT ![p] = @ \cup {<<task[p], "forward">>}]
    /\ logs' = logs \cup {log_fwd(Pair(p))}
    /\ UNCHANGED <<dirs, sentinel, mode, order, entered, released, missing, wrote, made,
                 flags, answer>>

\* lines 264-268: rsync_copy SRC -> DST through run(), which writes log_fwd; a
\* non-zero exit is only warned about.  Files absent at DST are created;
\* whether a file present at DST is updated depends on the configured flags.
\* A run that exits non-zero has written any part of what it had to write.
Forward(p) ==
    /\ pc[p] = "forward"
    /\ UNCHANGED notSync
    /\ LET sr == RootOf(Pair(p).src)
           dr == RootOf(Pair(p).dst)
           all == ForwardWrites(flags, Pair(p).src, tree[sr], tree[dr])
       IN  \E rc \in {0, 1}, S \in SUBSET all :
             /\ rc = 0 => S = all
             /\ tree' = [tree EXCEPT ![dr] = Transfer(tree[sr], tree[dr], S)]
             /\ rcs' = [rcs EXCEPT ![p] = [rc |-> rc, rc2 |-> 0, rc3 |-> 0]]
    /\ ran' = [ran EXCEPT ![p] = @ \cup {<<task[p], "forward">>}]
    /\ logs' = logs \cup {log_fwd(Pair(p))}
    /\ pc' = [pc EXCEPT ![p] = "reverse"]
    /\ UNCHANGED <<dirs, sentinel, mode, order, entered, released, task, missing, outcome, wrote, made,
                 flags, answer>>

\* a reverse scan that keeps the parsed file lines of a dry run that failed
ReverseScan_keep(p) ==
    /\ pc[p] = "reverse"
    /\ UNCHANGED notSync
    /\ ran' = [ran EXCEPT ![p] = @ \cup {<<task[p], "reverse">>}]
    /\ \E rc2 \in {0, 1}, withDirs \in BOOLEAN, late \in BOOLEAN :
         LET full == DryRunOutput(Pair(p).dst, tree[RootOf(Pair(p).dst)], tree[RootOf(Pair(p).src)], withDirs)
             out == IF rc2 = 0 THEN full ELSE (IF late THEN full ELSE << >>) \o <<ErrLine>>
             found == scan_return(0, scan_lines(<< >>, out))[2]
         IN  /\ rc2 = 0 => late
             /\ missing' = [missing EXCEPT ![p] = found]
             /\ IF found # << >>
                  THEN /\ pc' = [pc EXCEPT ![p] = "decide"]
                       /\ rcs' = [rcs EXCEPT ![p].rc2 = rc2]
                       /\ UNCHANGED <<task, outcome>>
                  ELSE AfterTask(p, [rcs[p] EXCEPT !.rc2 = rc2])
    /\ UNCHANGED <<dirs, sentinel, tree, mode, order, entered, released, wrote, made,
                 flags, logs, answer>>

\* lines 270-277, 291-292: the reverse dry-run (rsync_list_missing_from_src_mp4_only,
\* which reads the output through Popen and writes no transcript), the guard
\* of lines 273-275 and the test `if missing:`.  A dry run that exits non-zero
\* has printed an error line, after all of its lines (late) or none of them.
ReverseScan(p) ==
    /\ pc[p] = "reverse"
    /\ UNCHANGED notSync
    /\ ran' = [ran EXCEPT ![p] = @ \cup {<<task[p], "reverse">>}]
    /\ \E rc2 \in {0, 1}, withDirs \in BOOLEAN, late \in BOOLEAN :
         LET full == DryRunOutput(Pair(p).dst, tree[RootOf(Pair(p).dst)], tree[RootOf(Pair(p).src)], withDirs)
             out == IF rc2 = 0 THEN full ELSE (IF late THEN full ELSE << >>) \o <<ErrLine>>
             ret == scan_return(rc2, scan_lines(<< >>, out))
             found == IF ret[1] # 0 THEN << >> ELSE ret[2]
         IN  /\ rc2 = 0 => late
             /\ missing' = [missing EXCEPT ![p] = found]
             /\ IF found # << >>
                  THEN /\ pc' = [pc EXCEPT ![p] = "decide"]
                       /\ rcs' = [rcs EXCEPT ![p].rc2 = rc2]
                       /\ UNCHANGED <<task, outcome>>
                  ELSE AfterTask(p, [rcs[p] EXCEPT !.rc2 = rc2])
    /\ UNCHANGED <<dirs, sentinel, tree, mode, order, entered, released, wrote, made,
                 flags, logs, answer>>

\* lines 278-290: the prompt
Decide(p) ==
    /\ pc[p] = "decide"
    /\ UNCHANGED notSync
    /\ \E ans \in Answers :
         /\ answer' = [answer EXCEPT ![p] = ans]
         /\ IF confirm(ans, FALSE)
              THEN /\ pc' = [pc EXCEPT ![p] = "back"]
                   /\ UNCHANGED <<task, outcome, rcs>>
              ELSE AfterTask(p, rcs[p])
    /\ UNCHANGED <<dirs, sentinel, tree, mode, order, entered, released, missing, ran, wrote, made,
                 flags, logs>>

\* lines 284-288: rsync_copy_missing_mp4s_to_src DST -> SRC with --ignore-existing,
\* through run(), which writes log_back
BackSync(p) ==
    /\ pc[p] = "back"
    /\ UNCHANGED notSync
    /\ LET sr == RootOf(Pair(p).src)
           dr == RootOf(Pair(p).dst)
           all == BackSet(Pair(p).dst, tree[dr], tree[sr])
       IN  \E rc3 \in {0, 1}, S \in SUBSET all :
             /\ rc3 = 0 => S = all
             /\ tree' = [tree EXCEPT ![sr] = Transfer(tree[dr], tree[sr], S)]
             /\ AfterTask(p, [rcs[p] EXCEPT !.rc3 = rc3])
    /\ ran' = [ran EXCEPT ![p] = @ \cup {<<task[p], "back">>}]
    /\ logs' = logs \cup {log_back(Pair(p))}
    /\ UNCHANGED <<dirs, sentinel, mode, order, entered, released, missing, wrote, made,
                 flags, answer>>

\* main, lines 337-339 with _LockCtx.__exit__, lines 93-97: unlink(missing_ok=True)
Release(p) ==
    /\ pc[p] = "release"
    /\ UNCHANGED notSync
    /\ sentinel' = [sentinel EXCEPT ![order[p][Len(order[p]) - released[p]]] = 0]
    /\ released' = [released EXCEPT ![p] = @ + 1]
    /\ rcs' = [rcs EXCEPT ![p] = NoRcs]
    /\ pc' = [pc EXCEPT ![p] = IF released[p] + 1 = Len(order[p]) THEN "exit" ELSE "release"]
    /\ UNCHANGED <<dirs, tree, mode, order, entered, task, missing, outcome, ran, wrote, made,
                 flags, logs, answer>>

SyncNext ==
    \E p \in Procs :
        \/ ChooseMenu(p)
        \/ LockCtxEnterCheck(p)
        \/ LockCtxEnterWrite(p)
        \/ TaskStart(p)
        \/ Forward(p)
        \/ ReverseScan(p)
        \/ Decide(p)
        \/ BackSync(p)
        \/ Release(p)

\* the state of a run in which sync_pools.py is not used
SyncOff ==
    /\ dirs = {}
    /\ sentinel = [r \in PoolRoots |-> 0]
    /\ tree = [r \in PoolRoots |-> EmptyTree]
    /\ pc = [p \in Procs |-> "exit"]
    /\ mode = [p \in Procs |-> 6]
    /\ order = [p \in Procs |-> << >>]
    /\ entered = [p \in Procs |-> 0]
    /\ released = [p \in Procs |-> 0]
    /\ task = [p \in Procs |-> 1]
    /\ missing = [p \in Procs |-> << >>]
    /\ rcs = [p \in Procs |-> NoRcs]
    /\ outcome = [p \in Procs |-> "done"]
    /\ ran = [p \in Procs |-> {}]
    /\ wrote = [p \in Procs |-> {}]
    /\ made = [p \in Procs |-> {}]
    /\ flags = "append"
    /\ logs = {}
    /\ answer = [p \in Procs |-> << >>]

(***************************************************************************)
(* wipe_sdcard.py: verify the card against the media pool, then wipe        *)
(***************************************************************************)
\* largest file size (bytes) on the card and in the pool
MaxSize == 2
\* how many card files may disappear while the script runs
MaxVanish == 1

\* File names are sequences of characters, directories sequences of names.
\* The places a file can be at on the card (DEFAULT_DAILIES_ROLL)
CardPaths == { [dir |-> << >>, name |-> <<"a">>],
               [dir |-> << <<"D">> >>, name |-> <<"b">>],
               [dir |-> << >>, name |-> <<".", "_", "a">>],
               [dir |-> << <<".", "T">> >>, name |-> <<"a">>] }

\* NAME, the user picked in pick_user
NAME == <<"u", "1">>

\* The places a file can initially be at in the pool (MEDIA_POOL_ROOT)
PoolPaths == { [dir |-> << NAME >>, name |-> <<"a">>],
               [dir |-> << <<"u", "2">> >>, name |-> <<"a">>],
               [dir |-> << NAME >>, name |-> <<"b">>],
               [dir |-> << <<"u", "2">> >>, name |-> <<".", "b">>] }

\* the files of a tree given as path -> size (0: no such file)
FilesOf(fn) == { [dir |-> q.dir, name |-> q.name, size |-> fn[q]] : q \in { x \in DOMAIN fn : fn[x] # 0 } }


\* the path of a file record
PathOf(f) == [dir |-> f.dir, name |-> f.name]

\* str.startswith on character sequences
StartsWith(s, pre) == Len(s) >= Len(pre) /\ SubSeq(s, 1, Len(pre)) = pre

\* is_hidden_or_metadata, lines 53-54
is_hidden_or_metadata(f) == StartsWith(f.name, <<".">>) \/ StartsWith(f.name, <<".", "_">>)

\* list_files_recursive, lines 56-57: rglob("*") visits hidden directories too
list_files_recursive(files) == { f \in files : ~is_hidden_or_metadata(f) }

\* the weak identity (file name, byte size), lines 65 and 173
ContentKey(f) == <<f.name, f.size>>

\* index_media_root, lines 59-69
index_media_root(files) ==
    LET listed == list_files_recursive(files)
        keys == { ContentKey(f) : f \in listed }
    IN  [k \in keys |-> { PathOf(f) : f \in { g \in listed : ContentKey(g) = k } }]

\* the top-level entry of the card folder a file lies in, as iterdir() yields it
TopEntry(f) == IF f.dir = << >> THEN f.name ELSE f.dir[1]

\* wipe_directory_contents, lines 119-127: the entries in `failing` raise
wipe_directory_contents(files, failing) == { f \in files : TopEntry(f) \in failing }

\* copy_with_progress, lines 94-104: the name a copy gets in dst_dir
RECURSIVE DupName(_, _, _)
DupName(nm, taken, i) ==
    IF nm \notin taken THEN nm
    ELSE IF (nm \o <<"__dup", i>>) \notin taken THEN nm \o <<"__dup", i>>
    ELSE DupName(nm, taken, i + 1)

\* copy_with_progress, lines 80-117: copy srcs into dst_dir
RECURSIVE copy_with_progress(_, _, _)
copy_with_progress(srcs, dst_dir, files) ==
    IF srcs = << >> THEN files
    ELSE LET taken == { f.name : f \in { g \in files : g.dir = dst_dir } }
             target == [dir |-> dst_dir, name |-> DupName(Head(srcs).name, taken, 1), size |-> Head(srcs).size]
         IN  copy_with_progress(Tail(srcs), dst_dir, files \cup {target})

\* some order of the elements of a finite set, as a list
RECURSIVE AsSeq(_)
AsSeq(S) == IF S = {} THEN << >> ELSE LET x == CHOOSE y \in S : TRUE IN <<x>> \o AsSeq(S \ {x})

\* what the operator may type at the prompts
WipeAnswers == { << >>, <<"d", "e", "l", "e", "t", "e">>, <<" ", "D", "e", "l", "e", "t", "e">>, <<"y">>, <<"n">> }

WipeInit ==
    /\ \E c \in [CardPaths -> 0..MaxSize] : card = FilesOf(c)
    /\ \E q \in [PoolPaths -> 0..MaxSize] : pool = FilesOf(q)
    /\ wpc = "list"
    /\ card_files = {}
    /\ root_index = << >>
    /\ wipe_present = {}
    /\ wipe_missing = {}
    /\ typed = << >>
    /\ wresult = "running"
    /\ vanished = 0

\* the state of a run in which wipe_sdcard.py is not used
WipeOff ==
    /\ card = {}
    /\ pool = {}
    /\ wpc = "end"
    /\ card_files = {}
    /\ root_index = << >>
    /\ wipe_present = {}
    /\ wipe_missing = {}
    /\ typed = << >>
    /\ wresult = "off"
    /\ vanished = 0

\* the card files still there among the listed ones
Listed(p) == { f \in card : PathOf(f) = p }

\* main, lines 159-161
WListCard ==
    /\ wpc = "list"
    /\ UNCHANGED notWipe
    /\ card_files' = { PathOf(f) : f \in list_files_recursive(card) }
    /\ IF list_files_recursive(card) = {}
         THEN wpc' = "end" /\ wresult' = "NoFiles"
         ELSE wpc' = "total" /\ UNCHANGED wresult
    /\ UNCHANGED <<card, pool, root_index, wipe_present, wipe_missing, typed, vanished>>

\* main, lines 163-164: p.stat() of every listed file; a vanished file raises
WTotal ==
    /\ wpc = "total"
    /\ UNCHANGED notWipe
    /\ IF \E p \in card_files : Listed(p) = {}
         THEN wpc' = "end" /\ wresult' = "FileNotFoundError"
         ELSE wpc' = "index" /\ UNCHANGED wresult
    /\ UNCHANGED <<card, pool, card_files, root_index, wipe_present, wipe_missing, typed, vanished>>

\* main, lines 166-168
WIndex ==
    /\ wpc = "index"
    /\ UNCHANGED notWipe
    /\ root_index' = index_media_root(pool)
    /\ wpc' = "classify"
    /\ UNCHANGED <<card, pool, card_files, wipe_present, wipe_missing, typed, wresult, vanished>>

\* a classification that compares file names only
Classify_name_only(files, index) ==
    [present |-> { f \in files : \E k \in DOMAIN index : k[1] = f.name },
     missing |-> { f \in files : ~\E k \in DOMAIN index : k[1] = f.name }]

\* a classification that forgets the files it did not find
Classify_drop_missing(files, index) ==
    [present |-> { f \in files : ContentKey(f) \in DOMAIN index },
     missing |-> {}]

\* main, lines 170-179: files whose stat fails are in neither list
Classify(files, index) ==
    [present |-> { f \in files : ContentKey(f) \in DOMAIN index },
     missing |-> { f \in files : ContentKey(f) \notin DOMAIN index }]

\* main, lines 170-185
WClassify ==
    /\ wpc = "classify"
    /\ UNCHANGED notWipe
    /\ LET c == Classify(UNION { Listed(p) : p \in card_files }, root_index)
       IN  /\ wipe_present' = c.present
           /\ wipe_missing' = c.missing
           /\ wpc' = IF c.missing # {} THEN "orphan" ELSE "confirm"
    /\ UNCHANGED <<card, pool, card_files, root_index, typed, wresult, vanished>>

\* main, lines 185-199: offer to copy the missing files; never wipes
WOrphan ==
    /\ wpc = "orphan"
    /\ UNCHANGED notWipe
    /\ \E ans \in WipeAnswers :
         /\ typed' = ans
         /\ pool' = IF StripLower(ans) \in { <<"y">>, <<"y", "e", "s">> }
                      THEN copy_with_progress(AsSeq(wipe_missing), <<NAME, <<"_orphan">> >>, pool)
                      ELSE pool
    /\ wpc' = "end"
    /\ wresult' = "NotWiped"
    /\ UNCHANGED <<card, card_files, root_index, wipe_present, wipe_missing, vanished>>

\* main, lines 201-208: the confirmation and the wipe
WConfirm ==
    /\ wpc = "confirm"
    /\ UNCHANGED notWipe
    /\ \E ans \in WipeAnswers :
         /\ typed' = ans
         /\ IF StripLower(ans) = <<"d", "e", "l", "e", "t", "e">>
              THEN /\ \E failing \in SUBSET { TopEntry(f) : f \in card } :
                        card' = wipe_directory_contents(card, failing)
                   /\ wresult' = "Wiped"
              ELSE /\ UNCHANGED card
                   /\ wresult' = "Aborted"
    /\ wpc' = "end"
    /\ UNCHANGED <<pool, card_files, root_index, wipe_present, wipe_missing, vanished>>

\* environment: a card file disappears between being listed and being statted
\* (the FileNotFoundError the code catches at lines 172-175)
Vanish ==
    /\ wpc \in {"total", "index", "classify"}
    /\ UNCHANGED notWipe
    /\ vanished < MaxVanish
    /\ \E f \in card : card' = card \ {f}
    /\ vanished' = vanished + 1
    /\ UNCHANGED <<pool, wpc, card_files, root_index, wipe_present, wipe_missing, typed, wresult>>

WipeNext ==
    \/ WListCard
    \/ WTotal
    \/ WIndex
    \/ WClassify
    \/ WOrphan
    \/ WConfirm
    \/ Vanish

(***************************************************************************)
(* sdcard_to_lacie.py: ingest the card into a new dated bin                *)
(***************************************************************************)
\* the ingest runs (and, below, the packaging runs) that may overlap
Runs == {1, 2}

\* datetime.date.today().strftime("%Y%m%d"), the same day for every run
TODAY == <<"2", "0", "2", "5", "0", "9", "0", "6">>

\* another day
OTHER_DAY == <<"2", "0", "2", "5", "0", "9", "0", "7">>

DigitChars == <<"0", "1", "2", "3", "4", "5", "6", "7", "8", "9">>

\* \d on one character
IsDigit(c) == \E i \in 1..10 : DigitChars[i] = c

DigitVal(c) == (CHOOSE i \in 1..10 : DigitChars[i] = c) - 1

\* int(s) for a string of digits
RECURSIVE StrToInt(_)
StrToInt(s) == IF s = << >> THEN 0 ELSE 10 * StrToInt(SubSeq(s, 1, Len(s) - 1)) + DigitVal(s[Len(s)])

\* str(n) for n >= 0
RECURSIVE IntToStr(_)
IntToStr(n) == IF n < 10 THEN <<DigitChars[n + 1]>> ELSE IntToStr(n \div 10) \o <<DigitChars[(n % 10) + 1]>>

\* the format specification :02d, zero-padding to a minimum width of two
Format02d(n) == LET s == IntToStr(n) IN IF Len(s) < 2 THEN <<"0">> \o s ELSE s

\* BIN_PATTERN.match(name), line 48: ^(\d{8})_(\d{2})(?:_.*)?$
BIN_PATTERN(s) ==
    /\ Len(s) >= 11
    /\ \A i \in 1..8 : IsDigit(s[i])
    /\ s[9] = "_"
    /\ IsDigit(s[10])
    /\ IsDigit(s[11])
    /\ (Len(s) = 11 \/ s[12] = "_")

\* the sort key of line 111
BinKey(t) == <<StrToInt(t[1]), t[2]>>

BinKeyLeq(a, b) == BinKey(a)[1] < BinKey(b)[1] \/ (BinKey(a)[1] = BinKey(b)[1] /\ BinKey(a)[2] <= BinKey(b)[2])

\* list.sort(key=...) on the tuples found by iterdir()
RECURSIVE SortBins(_)
SortBins(S) ==
    IF S = {} THEN << >>
    ELSE LET m == CHOOSE x \in S : \A y \in S : BinKeyLeq(x, y) IN <<m>> \o SortBins(S \ {m})

\* parse_existing_bins, lines 95-112, on the directory names of the pool
parse_existing_bins(names) ==
    SortBins({ <<SubSeq(n, 1, 8), StrToInt(SubSeq(n, 10, 11)), n>> : n \in { m \in names : BIN_PATTERN(m) } })

\* max() of a non-empty list of integers
MaxOf(s) == CHOOSE x \in { s[i] : i \in DOMAIN s } : \A i \in DOMAIN s : s[i] <= x

\* a suggestion that takes the greatest sequence number of any date
suggest_any_date(ymd, existing) ==
    LET todays == [i \in DOMAIN existing |-> existing[i][2]]
        next_seq == IF todays # << >> THEN MaxOf(todays) + 1 ELSE 1
    IN  ymd \o <<"_">> \o Format02d(next_seq)

\* suggest_next_bin_name, lines 114-118
suggest_next_bin_name(ymd, existing) ==
    LET hits == SelectSeq(existing, LAMBDA t : t[1] = ymd)
        todays == [i \in DOMAIN hits |-> hits[i][2]]
        next_seq == IF todays # << >> THEN MaxOf(todays) + 1 ELSE 1
    IN  ymd \o <<"_">> \o Format02d(next_seq)

\* an index that keeps only the latest path of a key
RECURSIVE index_keep_last(_, _)
index_keep_last(listed, idx) ==
    IF listed = << >> THEN idx
    ELSE LET f == Head(listed)
             key == ContentKey(f)
         IN  index_keep_last(Tail(listed),
                 [k \in DOMAIN idx \cup {key} |-> IF k = key THEN <<PathOf(f)>> ELSE idx[k]])

\* index_entire_media_root, lines 67-76, over the listed files in listing order
RECURSIVE index_entire_media_root(_, _)
index_entire_media_root(listed, idx) ==
    IF listed = << >> THEN idx
    ELSE LET f == Head(listed)
             key == ContentKey(f)
             old == IF key \in DOMAIN idx THEN idx[key] ELSE << >>
         IN  index_entire_media_root(Tail(listed),
                 [k \in DOMAIN idx \cup {key} |-> IF k = key THEN Append(old, PathOf(f)) ELSE idx[k]])

\* a comparison that puts every candidate whose name is indexed in dups
find_dups_by_name(listed, index) ==
    LET d == SelectSeq(listed, LAMBDA f : \E k \in DOMAIN index : k[1] = f.name)
    IN  [dups |-> [i \in DOMAIN d |-> <<d[i], << >> >>],
         uniques |-> SelectSeq(listed, LAMBDA f : ContentKey(f) \notin DOMAIN index)]

\* find_dups_and_uniques_against_root, lines 78-93, over the listed card files
find_dups_and_uniques_against_root(listed, index) ==
    LET d == SelectSeq(listed, LAMBDA f : ContentKey(f) \in DOMAIN index)
    IN  [dups |-> [i \in DOMAIN d |-> <<d[i], index[ContentKey(d[i])]>>],
         uniques |-> SelectSeq(listed, LAMBDA f : ContentKey(f) \notin DOMAIN index)]

\* another user's name
U2 == <<"u", "2">>

\* the directory names the user's pool may hold before the runs
InitBinNames == { TODAY \o <<"_", "0", "1">>,
                  TODAY \o <<"_", "0", "2", "_", "x">>,
                  TODAY \o <<"_", "9", "9">>,
                  OTHER_DAY \o <<"_", "0", "1">> }

\* the places a file can initially be at under MEDIA_POOL_ROOT
IngestPoolPaths == { [dir |-> <<U2, <<"X">> >>, name |-> <<"a">>],
                     [dir |-> <<U2, <<".", "T">> >>, name |-> <<"a">>],
                     [dir |-> <<U2>>, name |-> <<".", "b">>] }

\* the places a file can be at under DAILIES_ROLL
RollPaths == { [dir |-> << >>, name |-> <<"a">>],
               [dir |-> << <<"D">> >>, name |-> <<"b">>],
               [dir |-> << >>, name |-> <<".", "_", "a">>] }

\* what the operator may type at the suffix prompt (line 228) and at the
\* duplicate prompt (line 247)
Suffixes == { << >>, <<"x">>, <<" ", "x">>, <<" ">>, <<"a", " ", "b">> }

\* str.strip(), line 228
Strip(s) == RStrip(LStrip(s))

\* the character class [A-Za-z0-9_-] of SUFFIX_ALLOWED
SuffixClass ==
    {"a", "b", "c", "d", "e", "f", "g", "h", "i", "j", "k", "l", "m",
     "n", "o", "p", "q", "r", "s", "t", "u", "v", "w", "x", "y", "z",
     "A", "B", "C", "D", "E", "F", "G", "H", "I", "J", "K", "L", "M",
     "N", "O", "P", "Q", "R", "S", "T", "U", "V", "W", "X", "Y", "Z",
     "0", "1", "2", "3", "4", "5", "6", "7", "8", "9", "_", "-"}

\* SUFFIX_ALLOWED.match, line 49: ^[A-Za-z0-9_-]+$
SUFFIX_ALLOWED(s) == s # << >> /\ \A i \in DOMAIN s : s[i] \in SuffixClass

Choices == { <<"1">>, <<"2">>, << >> }

\* the locals of main() before it runs
IngLocals == [pc |-> "start", existing_bins |-> << >>, root_index |-> << >>, dups |-> << >>,
              uniques |-> << >>, suggestion_base |-> << >>, dailies_roll_name |-> << >>,
              to_copy |-> << >>, done |-> 0, result |-> "running"]

NoHist == [prior |-> {}, seq |-> 0, copied |-> {}, intoExisting |-> FALSE, typed |-> << >>]

\* With one run every combination of pool and card files is tried, with two
\* runs every combination of existing bins.
IngestInit ==
    /\ \E running \in {{1}, Runs} :
         /\ ing = [r \in Runs |-> IF r \in running THEN IngLocals
                                  ELSE [IngLocals EXCEPT !.pc = "end", !.result = "off"]]
         /\ IF running = {1}
              THEN /\ \E q \in [IngestPoolPaths -> 0..MaxSize] : ifiles = FilesOf(q)
                   /\ \E c \in [RollPaths -> 0..MaxSize] : roll = FilesOf(c)
                   /\ ibins = {}
              ELSE /\ ifiles = { [dir |-> <<U2, <<"X">> >>, name |-> <<"a">>, size |-> 1] }
                   /\ roll = { [dir |-> << >>, name |-> <<"a">>, size |-> 1],
                               [dir |-> << <<"D">> >>, name |-> <<"b">>, size |-> 1] }
                   /\ ibins \in SUBSET InitBinNames
    /\ ihist = [r \in Runs |-> NoHist]

\* the state of a run in which sdcard_to_lacie.py is not used
IngestOff ==
    /\ ifiles = {}
    /\ ibins = {}
    /\ roll = {}
    /\ ing = [r \in Runs |-> [IngLocals EXCEPT !.pc = "end", !.result = "off"]]
    /\ ihist = [r \in Runs |-> NoHist]

\* main, lines 189-198: the pool directory is listed
IStart(r) ==
    /\ ing[r].pc = "start"
    /\ UNCHANGED notIngest
    /\ ing' = [ing EXCEPT ![r].existing_bins = parse_existing_bins(ibins), ![r].pc = "index"]
    /\ ihist' = [ihist EXCEPT ![r].prior = { q \in Runs : ing[q].pc = "end" }]
    /\ UNCHANGED <<ifiles, ibins, roll>>

\* main, line 214
IIndex(r) ==
    /\ ing[r].pc = "index"
    /\ UNCHANGED notIngest
    /\ ing' = [ing EXCEPT ![r].root_index = index_entire_media_root(AsSeq(list_files_recursive(ifiles)), << >>),
                          ![r].pc = "diff"]
    /\ UNCHANGED <<ifiles, ibins, roll, ihist>>

\* main, line 219
IDiff(r) ==
    /\ ing[r].pc = "diff"
    /\ UNCHANGED notIngest
    /\ LET d == find_dups_and_uniques_against_root(AsSeq(list_files_recursive(roll)), ing[r].root_index)
       IN  ing' = [ing EXCEPT ![r].dups = d.dups, ![r].uniques = d.uniques, ![r].pc = "suggest"]
    /\ UNCHANGED <<ifiles, ibins, roll, ihist>>

\* write_duplicate_report, lines 163-180: the report file under MEDIA_POOL/_reports
ReportFile(roll_name) ==
    [dir |-> <<NAME, <<"_reports">> >>, name |-> <<"duplicate_report_">> \o roll_name \o <<".csv">>, size |-> 1]

\* a file written at its path replaces the file that was there
WriteFile(files, f) == { g \in files : PathOf(g) # PathOf(f) } \cup {f}

\* main, lines 222-239: the suggested base name, one round of the suffix
\* prompt (asked again when the stripped input is neither empty nor allowed)
\* and, when the loop ends, the first existence check
ISuggest(r) ==
    /\ ing[r].pc = "suggest"
    /\ UNCHANGED notIngest
    /\ \E input \in Suffixes :
         LET suggestion_base == suggest_next_bin_name(TODAY, ing[r].existing_bins)
             suffix == Strip(input)
             dailies_roll_name == IF suffix = << >> THEN suggestion_base
                                  ELSE suggestion_base \o <<"_">> \o suffix
         IN  /\ IF suffix = << >> \/ SUFFIX_ALLOWED(suffix)
                  THEN ing' = [ing EXCEPT ![r].suggestion_base = suggestion_base,
                                          ![r].dailies_roll_name = dailies_roll_name,
                                          ![r].pc = IF dailies_roll_name \in ibins THEN "end" ELSE "choose",
                                          ![r].result = IF dailies_roll_name \in ibins THEN "DestinationExists" ELSE @]
                  ELSE ing' = [ing EXCEPT ![r].suggestion_base = suggestion_base]
             /\ ihist' = [ihist EXCEPT ![r].seq = StrToInt(SubSeq(suggestion_base, 10, Len(suggestion_base))),
                                       ![r].typed = input]
    /\ UNCHANGED <<ifiles, ibins, roll>>

\* main, lines 242-257: the duplicate report and the choice of what to copy
IChoose(r) ==
    /\ ing[r].pc = "choose"
    /\ UNCHANGED notIngest
    /\ IF ing[r].dups # << >>
         THEN /\ ibins' = ibins \cup { <<"_reports">> }
              /\ ifiles' = WriteFile(ifiles, ReportFile(ing[r].dailies_roll_name))
              /\ \E choice \in Choices :
                   ing' = [ing EXCEPT
                     ![r].to_copy = IF choice = <<"1">> THEN ing[r].uniques
                                    ELSE IF choice = <<"2">> THEN AsSeq(list_files_recursive(roll))
                                    ELSE << >>,
                     ![r].pc = IF (choice = <<"1">> /\ ing[r].uniques # << >>) \/ choice = <<"2">>
                                 THEN "check" ELSE "end",
                     ![r].result = IF choice = <<"1">> /\ ing[r].uniques = << >> THEN "NoUnique"
                                   ELSE IF choice \in { <<"1">>, <<"2">> } THEN @
                                   ELSE "Aborted"]
         ELSE /\ ing' = [ing EXCEPT ![r].to_copy = AsSeq(list_files_recursive(roll)), ![r].pc = "check"]
              /\ UNCHANGED <<ifiles, ibins>>
    /\ UNCHANGED <<roll, ihist>>

\* copy_selected_files, lines 152-155: the second existence check
ICheck(r) ==
    /\ ing[r].pc = "check"
    /\ UNCHANGED notIngest
    /\ ing' = [ing EXCEPT
         ![r].pc = IF ing[r].dailies_roll_name \in ibins \/ ing[r].to_copy = << >> THEN "end" ELSE "copy",
         ![r].result = IF ing[r].dailies_roll_name \in ibins THEN "DestinationExists"
                       ELSE IF ing[r].to_copy = << >> THEN "done" ELSE @]
    /\ UNCHANGED <<ifiles, ibins, roll, ihist>>

\* copy_selected_files, lines 156-159, one file: copy_file_with_progress makes
\* the parent directories (exist_ok) and writes the file
ICopy(r) ==
    /\ ing[r].pc = "copy"
    /\ UNCHANGED notIngest
    /\ LET s == ing[r].to_copy[ing[r].done + 1]
           dest == ing[r].dailies_roll_name
           d == [dir |-> <<NAME, dest>> \o s.dir, name |-> s.name, size |-> s.size]
           last == ing[r].done + 1 = Len(ing[r].to_copy)
       IN  /\ ibins' = ibins \cup {dest}
           /\ ifiles' = WriteFile(ifiles, d)
           /\ ing' = [ing EXCEPT ![r].done = @ + 1,
                                 ![r].pc = IF last THEN "end" ELSE "copy",
                                 ![r].result = IF last THEN "done" ELSE @]
           /\ ihist' = [ihist EXCEPT ![r].copied = @ \cup {dest},
                                    ![r].intoExisting = @ \/ (ing[r].done = 0 /\ dest \in ibins)]
    /\ UNCHANGED roll

IngestNext ==
    \E r \in Runs :
        \/ IStart(r)
        \/ IIndex(r)
        \/ IDiff(r)
        \/ ISuggest(r)
        \/ IChoose(r)
        \/ ICheck(r)
        \/ ICopy(r)

(***************************************************************************)
(* proxy_packager.py: package proxy folders into a dated _sent bucket      *)
(***************************************************************************)
\* the pattern of next_today_bucket, line 55: ^<today>_(\d{2})$
BucketPattern(today_str, s) ==
    /\ Len(s) = 11
    /\ SubSeq(s, 1, 8) = today_str
    /\ s[9] = "_"
    /\ IsDigit(s[10])
    /\ IsDigit(s[11])

\* the loop of next_today_bucket, lines 56-67, over the directories of _sent
RECURSIVE MaxIdx(_, _, _)
MaxIdx(today_str, listed, max_idx) ==
    IF listed = << >> THEN max_idx
    ELSE LET p == Head(listed)
             idx == StrToInt(SubSeq(p, 10, 11))
         IN  MaxIdx(today_str, Tail(listed),
                    IF BucketPattern(today_str, p) /\ idx > max_idx THEN idx ELSE max_idx)

\* next_today_bucket, lines 52-70: the bucket name
next_today_bucket(today_str, names) ==
    today_str \o <<"_">> \o Format02d(MaxIdx(today_str, AsSeq(names), 0) + 1)

\* the directories of PROXY_POOL_ROOT/<name>, sorted by lower-cased name
BaseDirs == << <<".", "h">>, <<"_reports">>, <<"_sent">>, <<"f", "1">>, <<"f", "2">> >>

\* main, line 240
exclude_names == { <<"_reports">>, <<"_sent">> }

\* list_top_level_dirs, lines 38-50
list_top_level_dirs(base, excluded) ==
    SelectSeq(base, LAMBDA n : n \notin excluded /\ ~StartsWith(n, <<".">>))

\* folder_already_sent, lines 114-128
folder_already_sent(sent_dir, folder_name) == \E b \in DOMAIN sent_dir : folder_name \in sent_dir[b]

\* unique_destination, lines 75-85: the name of the destination in dst_dir
RECURSIVE unique_alt(_, _, _)
unique_alt(taken, nm, i) ==
    IF (nm \o <<"-">> \o IntToStr(i)) \notin taken THEN nm \o <<"-">> \o IntToStr(i)
    ELSE unique_alt(taken, nm, i + 1)

unique_destination(taken, nm) == IF nm \notin taken THEN nm ELSE unique_alt(taken, nm, 1)

\* what the operator may type at the prompt of line 276
PackAnswers == { << >>, <<"Y">>, <<"n">>, <<"x">> }

\* the locals of main() before it runs
PkLocals == [pc |-> "start", candidates |-> << >>, bucket_name |-> << >>, done |-> 0,
             transferred |-> << >>, result |-> "running"]

NoPackHist == [existed |-> FALSE, into |-> {}, before |-> {}]

\* _sent holds any of the dated directories, each empty or holding folder f2,
\* which earlier runs have sent
PackInit ==
    /\ \E names \in SUBSET InitBinNames : sent \in [names -> { {}, { <<"f", "2">> } }]
    /\ pk = [r \in Runs |-> PkLocals]
    /\ phist = [r \in Runs |-> [NoPackHist EXCEPT !.before = UNION { sent[b] : b \in DOMAIN sent }]]

\* the state of a run in which proxy_packager.py is not used
PackOff ==
    /\ sent = << >>
    /\ pk = [r \in Runs |-> [PkLocals EXCEPT !.pc = "end", !.result = "off"]]
    /\ phist = [r \in Runs |-> NoPackHist]

\* main, lines 225-266: the folders to send, without those already in a bucket
PStart(r) ==
    /\ pk[r].pc = "start"
    /\ UNCHANGED notPack
    /\ LET all_candidates == list_top_level_dirs(BaseDirs, exclude_names)
           cands == SelectSeq(all_candidates, LAMBDA n : ~folder_already_sent(sent, n))
       IN  pk' = [pk EXCEPT ![r].candidates = cands,
                            ![r].pc = IF cands = << >> THEN "end" ELSE "name",
                            ![r].result = IF cands = << >> THEN "NothingToSend" ELSE @]
    /\ UNCHANGED <<sent, phist>>

\* main, line 269: the bucket name is computed, the bucket is not created
PName(r) ==
    /\ pk[r].pc = "name"
    /\ UNCHANGED notPack
    /\ pk' = [pk EXCEPT ![r].bucket_name = next_today_bucket(TODAY, DOMAIN sent), ![r].pc = "confirm"]
    /\ UNCHANGED <<sent, phist>>

\* main, lines 272-283
PConfirm(r) ==
    /\ pk[r].pc = "confirm"
    /\ UNCHANGED notPack
    /\ \E ans \in PackAnswers :
         pk' = [pk EXCEPT ![r].pc = IF StripLower(ans) \in { << >>, <<"y">> } THEN "create" ELSE "end",
                          ![r].result = IF StripLower(ans) \in { << >>, <<"y">> } THEN @ ELSE "Cancelled"]
    /\ UNCHANGED <<sent, phist>>

\* main, line 286: ensure_dir(bucket_path), mkdir with exist_ok
PCreate(r) ==
    /\ pk[r].pc = "create"
    /\ UNCHANGED notPack
    /\ sent' = IF pk[r].bucket_name \in DOMAIN sent THEN sent
               ELSE [b \in DOMAIN sent \cup {pk[r].bucket_name} |-> IF b \in DOMAIN sent THEN sent[b] ELSE {}]
    /\ pk' = [pk EXCEPT ![r].pc = "transfer"]
    /\ phist' = [phist EXCEPT ![r].existed = pk[r].bucket_name \in DOMAIN sent]

\* main, lines 303-313, one folder: its destination and the transfer.  A
\* transfer that fails (hardlink_directory, copy_directory and rsync_directory
\* return False, or raise) has or has not created the destination directory
\* before it failed: dst.mkdir is the first statement of hardlink_directory
\* (line 148), copytree and rsync create it before they copy.
PTransfer(r) ==
    /\ pk[r].pc = "transfer"
    /\ UNCHANGED notPack
    /\ LET src == pk[r].candidates[pk[r].done + 1]
           b == pk[r].bucket_name
           dst == unique_destination(sent[b], src)
           last == pk[r].done + 1 = Len(pk[r].candidates)
       IN  \E success \in BOOLEAN, created \in BOOLEAN :
             /\ success => created
             /\ sent' = IF created THEN [sent EXCEPT ![b] = @ \cup {dst}] ELSE sent
             /\ pk' = [pk EXCEPT ![r].done = @ + 1,
                                 ![r].transferred = IF success THEN Append(@, <<src, dst>>) ELSE @,
                                 ![r].pc = IF last THEN "end" ELSE "transfer",
                                 ![r].result = IF last THEN "done" ELSE @]
             /\ phist' = [phist EXCEPT ![r].into = IF success THEN @ \cup {b} ELSE @]

PackNext ==
    \E r \in Runs :
        \/ PStart(r)
        \/ PName(r)
        \/ PConfirm(r)
        \/ PCreate(r)
        \/ PTransfer(r)

(***************************************************************************)
(* sync_pools.py: the parsing loop of rsync_list_missing_from_src_mp4_only *)
(***************************************************************************)
\* the greatest number of lines the dry run prints
MaxLines == 3

\* a line of output: a new file that matches *.mp4
LineFileMp4 == <<">", "f", "+", "+", "+", "+", "+", "+", "+", " ", "a", "/", "b", ".", "m", "p", "4", "\n">>

\* a line of output: a directory
LineDir == <<".", "d", ".", ".", "t", ".", ".", ".", ".", ".", ".", " ", "a", "/", "\n">>

\* a line of output: a new file that does not match *.mp4
LineFileTxt == <<">", "f", "+", "+", "+", "+", "+", "+", "+", " ", "a", "/", "c", ".", "t", "x", "t", "\n">>

\* a line of output: an empty line
LineEmpty == <<"\n">>

\* a line of output: a line without a space
LineNoSpace == <<"s", "e", "n", "d", "i", "n", "g", "\n">>

\* a line of output: a file code with a path that ends in a separator
LineFileSlash == <<">", "f", "+", "+", "+", "+", "+", "+", "+", " ", "a", "/", "\n">>

\* a line of output: a new file whose name holds a space
LineFileSpace == <<">", "f", "+", "+", "+", "+", "+", "+", "+", " ", "a", " ", "b", "\n">>

\* a line of output: a new symbolic link
LineSymlink == <<"c", "L", "+", "+", "+", "+", "+", "+", "+", " ", "a", "/", "l", "\n">>

\* the lines the dry run may print
ScanLines == { LineFileMp4, LineDir, LineFileTxt, LineEmpty, LineNoSpace, LineFileSlash, LineFileSpace, LineSymlink }

\* the dry run has printed its lines and is about to be read
ScanInit ==
    /\ \E n \in 0..MaxLines : stdout \in [1..n -> ScanLines]
    /\ scan_rc \in {0, 23}
    /\ scan_pos = 0
    /\ candidates = << >>
    /\ scan_ret = << >>

\* the state of a run in which the reverse scan is not looked at line by line
ScanOff ==
    /\ stdout = << >>
    /\ scan_pos = 0
    /\ scan_rc = 0
    /\ candidates = << >>
    /\ scan_ret = <<0, << >> >>

\* lines 193-205: one line of proc.stdout is read
ScanLine ==
    /\ scan_ret = << >>
    /\ scan_pos < Len(stdout)
    /\ UNCHANGED notScan
    /\ candidates' = scan_line(candidates, stdout[scan_pos + 1])
    /\ scan_pos' = scan_pos + 1
    /\ UNCHANGED <<stdout, scan_rc, scan_ret>>

\* lines 206-211: the output has ended, the function returns
ScanReturn ==
    /\ scan_ret = << >>
    /\ scan_pos = Len(stdout)
    /\ UNCHANGED notScan
    /\ scan_ret' = scan_return(scan_rc, candidates)
    /\ UNCHANGED <<stdout, scan_pos, scan_rc, candidates>>

ScanNext ==
    \/ ScanLine
    \/ ScanReturn

(* -------------------------- specifications ---------------------------- *)
vars == <<syncVars, wipeVars, ingestVars, packVars, scanVars>>

\* concurrent invocations of sync_pools.py
Init == SyncInit /\ WipeOff /\ IngestOff /\ PackOff /\ ScanOff

Next == SyncNext

Spec == Init /\ [][Next]_vars

\* one run of wipe_sdcard.py
InitWipe == WipeInit /\ SyncOff /\ IngestOff /\ PackOff /\ ScanOff

NextWipe == WipeNext

SpecWipe == InitWipe /\ [][NextWipe]_vars

\* overlapping runs of sdcard_to_lacie.py
InitIngest == IngestInit /\ SyncOff /\ WipeOff /\ PackOff /\ ScanOff

NextIngest == IngestNext

SpecIngest == InitIngest /\ [][NextIngest]_vars

\* overlapping runs of proxy_packager.py for one user
InitPack == PackInit /\ SyncOff /\ WipeOff /\ IngestOff /\ ScanOff

NextPack == PackNext

SpecPack == InitPack /\ [][NextPack]_vars

\* one call of rsync_list_missing_from_src_mp4_only reading its dry run
InitScan == ScanInit /\ SyncOff /\ WipeOff /\ IngestOff /\ PackOff

NextScan == ScanNext

SpecScan == InitScan /\ [][NextScan]_vars

(* ------------------------------ claims -------------------------------- *)
ToolPcs == {"forward", "reverse", "decide", "back"}

TaskPcs == {"task"} \cup ToolPcs

\* C1: mutual exclusion on a pool root: no two invocations are at the same time
\* between a successful acquire of root R's sentinel and their release of R.
C1_MutualExclusion ==
    \A p, q \in Procs : p # q => Holding(p) \cap Holding(q) = {}

\* C2: every sentinel an invocation created is removed by the time the
\* invocation ends, on every exit path.
C2_SentinelsRemovedAtExit ==
    \A p \in Procs : pc[p] = "exit" => \A r \in wrote[p] : sentinel[r] # p

\* C3: when the sentinel exists at root R as acquire(R) runs, acquire fails with
\* LockHeld and leaves directories, files and every sentinel as they were.
C3_LockHeldNoMutation ==
    [][\A p \in Procs :
          (pc[p] = "enter" /\ sentinel[NextRoot(p)] # 0 /\ pc'[p] # pc[p])
          => /\ pc'[p] = "exit"
             /\ outcome'[p] = "LockHeld"
             /\ dirs' = dirs
             /\ sentinel' = sentinel
             /\ tree' = tree]_vars

C3_Witness ==
    \E p \in Procs :
        /\ outcome[p] = "LockHeld"
        /\ sentinel[NextRoot(p)] \notin {0, p}

\* C4: within a batch no tool invocation and no task step happens before the
\* sentinels of all roots of its lock set are acquired, and the batch releases
\* no sentinel while a task can still run: once it has released one, every
\* task is finished or the batch was aborted.
C4_LockAllThenTasksThenRelease ==
    \A p \in Procs :
        /\ (pc[p] \in TaskPcs \/ ran[p] # {})
             => /\ entered[p] = Len(order[p])
                /\ Locks(mode[p]) \subseteq wrote[p]
        /\ pc[p] \in TaskPcs => released[p] = 0
        /\ released[p] > 0
             => /\ pc[p] \in {"release", "exit"}
                /\ task[p] > Len(Pairs(mode[p])) \/ outcome[p] = "VolumeNotMounted"

C4_Witness ==
    \E p \in Procs :
        /\ Cardinality(Locks(mode[p])) = 2
        /\ <<2, "forward">> \in ran[p]
        /\ released[p] = 2

\* C5: while a task is in ForwardSync, ReverseScan or BackSync, a sentinel of
\* its batch exists at the pool root of its source and of its destination.
C5_LockCoverage ==
    \A p \in Procs :
        pc[p] \in ToolPcs
        => /\ sentinel[RootOf(Pair(p).src)] = p
           /\ sentinel[Top(Pair(p))] = p

\* C6: a non-zero exit of the forward sync, the reverse dry-run or the back-sync
\* never aborts the batch: the task goes on to its next stage, and when it ends
\* the next task of the batch is started.
C6_ToolFailureNeverAborts ==
    [][\A p \in Procs :
          (pc[p] \in ToolPcs /\ pc'[p] # pc[p])
          => \/ pc'[p] \in {"reverse", "decide", "back"} /\ task'[p] = task[p]
             \/ /\ task[p] < Len(Pairs(mode[p]))
                /\ pc'[p] = "task"
                /\ task'[p] = task[p] + 1
             \/ /\ task[p] = Len(Pairs(mode[p]))
                /\ pc'[p] = "release"
                /\ outcome'[p] = "done"]_vars

C6_Witness ==
    \E p \in Procs :
        /\ pc[p] = "forward"
        /\ task[p] = 2
        /\ rcs[p].rc # 0
        /\ rcs[p].rc3 # 0

\* the stage of task i of invocation p
Stage(p, i) ==
    IF mode[p] \notin 1..5 \/ i > Len(Pairs(mode[p])) THEN "None"
    ELSE IF i < task[p] THEN "Done"
    ELSE IF i > task[p] THEN "Idle"
    ELSE CASE pc[p] = "forward" -> "ForwardSync"
           [] pc[p] \in {"reverse", "decide"} -> "ReverseScan"
           [] pc[p] = "back" -> "BackSync"
           [] OTHER -> "Idle"

StageOrder == { <<"None", "Idle">>, <<"Idle", "ForwardSync">>, <<"ForwardSync", "ReverseScan">>,
                <<"ReverseScan", "BackSync">>, <<"ReverseScan", "Done">>, <<"BackSync", "Done">> }

\* C7: every task visits its stages only in the order Idle, ForwardSync,
\* ReverseScan, optional BackSync, Done; ForwardSync is always followed by
\* ReverseScan, whatever its exit status.
C7_StageOrder ==
    [][\A p \in Procs : \A i \in 1..2 :
          /\ Stage(p, i)' # Stage(p, i) => <<Stage(p, i), Stage(p, i)'>> \in StageOrder
          /\ (pc[p] = "forward" /\ pc'[p] # pc[p])
               => pc'[p] = "reverse" /\ <<task[p], "forward">> \in ran'[p]]_vars

C7_Witness ==
    \E p \in Procs :
        /\ Stage(p, 1) = "Done"
        /\ Stage(p, 2) = "ForwardSync"
        /\ rcs[p].rc # 0
        /\ <<1, "back">> \in ran[p]

\* C8: BackSync never overwrites: every file under the source root when
\* BackSync starts is unchanged when it ends; it only adds files that were
\* absent at the source, match the include filter and come from the destination.
C8_BackSyncNeverOverwrites ==
    [][\A p \in Procs :
          (pc[p] = "back" /\ pc'[p] # pc[p])
          => LET sr == RootOf(Pair(p).src)
                 dr == RootOf(Pair(p).dst)
             IN  /\ \A f \in Paths :
                       /\ tree[sr][f] # 0 => tree'[sr][f] = tree[sr][f]
                       /\ (tree[sr][f] = 0 /\ tree'[sr][f] # 0)
                            => MatchesGlobs(f) /\ tree'[sr][f] = tree[dr][f]
                 /\ \A r \in PoolRoots \ {sr} : tree'[r] = tree[r]]_vars

C8_Witness ==
    \E p \in Procs :
        /\ <<1, "back">> \in ran[p]
        /\ pc[p] = "release"
        /\ LET sr == RootOf(Pairs(mode[p])[1].src)
               dr == RootOf(Pairs(mode[p])[1].dst)
           IN  /\ \E f \in Paths : MatchesGlobs(f) /\ tree[sr][f] # 0 /\ tree[dr][f] # 0
                                   /\ tree[sr][f] # tree[dr][f]
               /\ \E f \in Paths : tree[sr][f] = MaxContent

\* C9: when the volume of a task's source or destination is not mounted, the
\* run aborts before any mutation: no sentinel written, no directory created,
\* no tool invocation.
C9_AbortBeforeAnyMutation ==
    \A p \in Procs :
        outcome[p] = "VolumeNotMounted" => wrote[p] = {} /\ made[p] = {} /\ ran[p] = {}

\* C10: the card folder's contents are deleted only if every non-hidden file
\* on the card has its ContentKey (name, size) in the index built in this run
\* and the operator typed 'delete' (compared as the prompt does, stripped and
\* lower-cased); when a card file is missing from the index nothing is deleted.
C10_VerifyBeforeWipe ==
    [][(wpc = "confirm" \/ wpc = "orphan") /\ card' # card
          => /\ \A f \in card : ~is_hidden_or_metadata(f) => <<f.name, f.size>> \in DOMAIN root_index
             /\ \A f \in card : ~is_hidden_or_metadata(f) =>
                    \E g \in pool : g.name = f.name /\ g.size = f.size /\ ~is_hidden_or_metadata(g)
             /\ StripLower(typed') = <<"d", "e", "l", "e", "t", "e">>]_vars

C10_Witness ==
    /\ wresult = "Wiped"
    /\ card = {}
    /\ Cardinality(wipe_present) >= 2
    /\ vanished = 0

\* C11: ingest never writes into an existing bin: two runs never copy files
\* into the same bin directory, and no run writes into a bin directory that
\* existed before its own creation step (the run that comes second fails with
\* DestinationExists instead).
C11_NeverIntoExistingBin ==
    /\ \A p, q \in Runs : p # q => ihist[p].copied \cap ihist[q].copied = {}
    /\ \A r \in Runs : ~ihist[r].intoExisting

\* the runs whose whole work lies before run r listed the pool, or has not begun
Sequential(r) == \A q \in Runs \ {r} : ing[q].pc = "start" \/ q \in ihist[r].prior

\* C13: in a sequence of allocate-then-create steps on one date in one user
\* subtree, each allocated sequence number is strictly greater than the
\* sequence number of every existing bin of that date, suffixed or not, and
\* the allocated base name is not the base of an existing bin.
C13_FreshIncreasingSeq ==
    [][\A r \in Runs :
          (ing[r].pc = "suggest" /\ ing'[r].pc # "suggest" /\ Sequential(r))
          => /\ \A n \in ibins :
                    (BIN_PATTERN(n) /\ SubSeq(n, 1, 8) = TODAY)
                    => /\ ihist'[r].seq > StrToInt(SubSeq(n, 10, 11))
                       /\ ing'[r].suggestion_base # SubSeq(n, 1, 11)
             /\ \A q \in ihist[r].prior :
                    ihist[q].copied # {}
                    => /\ ihist'[r].seq > ihist[q].seq
                       /\ ing'[r].suggestion_base # ing[q].suggestion_base]_vars

\* a bin identifier with an 8-digit date and exactly two sequence digits
ValidBinId(s) ==
    /\ Len(s) = 11
    /\ \A i \in (1..8) \cup {10, 11} : IsDigit(s[i])
    /\ s[9] = "_"

\* C14: every name the allocators return is a valid bin identifier with an
\* 8-digit date and exactly two sequence digits, also when the highest
\* sequence of today is 99, and so is recognised by the bin pattern.
C14_ValidBinNames ==
    \A r \in Runs :
        ing[r].suggestion_base # << >>
        => /\ ValidBinId(ing[r].suggestion_base)
           /\ BIN_PATTERN(ing[r].suggestion_base)
           /\ ValidBinId(next_today_bucket(TODAY, ibins))

\* C15: suggestNext(today, existing) is today, '_' and 1 + the greatest
\* sequence number among the entries of today, zero-padded to two digits, or
\* 01 when no entry is of today; entries of other dates do not matter; the
\* listing (20250906,1),(20250906,2),(20250907,1) gives 20250906_03.
C15_SuggestNext ==
    [][\A r \in Runs :
          (ing[r].pc = "suggest" /\ ing'[r].pc # "suggest")
          => LET ex == ing[r].existing_bins
                 S == { ex[i][2] : i \in { j \in DOMAIN ex : ex[j][1] = TODAY } }
                 n == IF S = {} THEN 1 ELSE 1 + (CHOOSE x \in S : \A y \in S : y <= x)
                 b == ing'[r].suggestion_base
             IN  /\ SubSeq(b, 1, 9) = TODAY \o <<"_">>
                 /\ Len(b) >= 11
                 /\ \A i \in 10..Len(b) : IsDigit(b[i])
                 /\ StrToInt(SubSeq(b, 10, Len(b))) = n
                 /\ Len(b) > 11 => b[10] # "0"
                 /\ b = suggest_next_bin_name(TODAY, SelectSeq(ex, LAMBDA t : t[1] = TODAY))
                 /\ suggest_next_bin_name(TODAY, << <<TODAY, 1, 0>>, <<TODAY, 2, 0>>, <<OTHER_DAY, 1, 0>> >>)
                      = TODAY \o <<"_", "0", "3">>
                 /\ suggest_next_bin_name(TODAY, << >>) = TODAY \o <<"_", "0", "1">>]_vars

C15_Witness ==
    \E r \in Runs :
        /\ ing[r].suggestion_base = TODAY \o <<"_", "0", "3">>
        /\ Len(ing[r].existing_bins) = 3
        /\ ing[r].existing_bins[3][1] = OTHER_DAY

\* the number of times x occurs in the list s
Occurrences(s, x) == Cardinality({ i \in DOMAIN s : s[i] = x })

\* C17: build(root) has exactly one entry per distinct (file name, byte size)
\* among the files under root whose name does not start with '.'; the path of
\* every such file is in the entry of its key, once, and in no other entry;
\* no file whose name starts with '.' or '._' is in any entry.
C17_IndexEntries ==
    [][\A r \in Runs :
          (ing[r].pc = "index" /\ ing'[r].pc # "index")
          => LET idx == ing'[r].root_index
                 vis == { f \in ifiles : f.name[1] # "." }
             IN  /\ DOMAIN idx = { <<f.name, f.size>> : f \in vis }
                 /\ \A f \in vis : \A k \in DOMAIN idx :
                        Occurrences(idx[k], PathOf(f)) = IF k = <<f.name, f.size>> THEN 1 ELSE 0
                 /\ \A k \in DOMAIN idx : \A i \in DOMAIN idx[k] :
                        /\ idx[k][i].name[1] # "."
                        /\ \E f \in vis : PathOf(f) = idx[k][i]
                 /\ DOMAIN index_media_root(ifiles) = DOMAIN idx
                 /\ \A k \in DOMAIN idx :
                        index_media_root(ifiles)[k] = { idx[k][i] : i \in DOMAIN idx[k] }]_vars

C17_Witness ==
    \E r \in Runs :
        /\ ing[r].pc = "diff"
        /\ \E k \in DOMAIN ing[r].root_index : Len(ing[r].root_index[k]) = 2
        /\ \E f \in ifiles : f.name[1] = "."

\* C18: no path in any index entry has a directory component that starts
\* with '.', also when the file's own name is not hidden.
C18_NoHiddenAncestor ==
    \A r \in Runs :
        \A k \in DOMAIN ing[r].root_index : \A i \in DOMAIN ing[r].root_index[k] :
            \A j \in DOMAIN ing[r].root_index[k][i].dir : ing[r].root_index[k][i].dir[j][1] # "."

\* C19: diff(files, index) partitions the eligible candidates: each is exactly
\* once in duplicates or in uniques, in duplicates iff its (name, size) key is
\* a key of the index, and neither the index nor the filesystem is changed.
C19_DiffPartitions ==
    [][\A r \in Runs :
          (ing[r].pc = "diff" /\ ing'[r].pc # "diff")
          => LET dups == [i \in DOMAIN ing'[r].dups |-> ing'[r].dups[i][1]]
                 uniques == ing'[r].uniques
                 idx == ing[r].root_index
             IN  /\ \A f \in roll :
                        f.name[1] # "."
                        => /\ Occurrences(dups, f) + Occurrences(uniques, f) = 1
                           /\ Occurrences(dups, f) = 1 <=> <<f.name, f.size>> \in DOMAIN idx
                 /\ \A i \in DOMAIN dups : dups[i] \in roll /\ dups[i].name[1] # "."
                 /\ \A i \in DOMAIN uniques : uniques[i] \in roll /\ uniques[i].name[1] # "."
                 /\ \A i \in DOMAIN ing'[r].dups : ing'[r].dups[i][2] = idx[<<dups[i].name, dups[i].size>>]
                 /\ ing'[r].root_index = idx
                 /\ ifiles' = ifiles /\ ibins' = ibins /\ roll' = roll]_vars

C19_Witness ==
    \E r \in Runs :
        /\ ing[r].pc = "suggest"
        /\ ing[r].dups # << >>
        /\ ing[r].uniques # << >>
        /\ \E f \in roll : f.name[1] = "."

\* C12: the bucket name a packaging run allocated is not on disk when the run
\* creates it, and two packaging runs for the same user never transfer
\* folders into the same bucket directory.
C12_BucketCommitCheck ==
    /\ \A r \in Runs : ~phist[r].existed
    /\ \A p, q \in Runs : p # q => phist[p].into \cap phist[q].into = {}

\* C16: for every set of directory names and every date, next_today_bucket
\* returns the name suggestNext returns for parseExisting of the same names,
\* also when a name carries a suffix.
C16_SameAllocator ==
    \A d \in {TODAY, OTHER_DAY} :
        next_today_bucket(d, DOMAIN sent) = suggest_next_bin_name(d, parse_existing_bins(DOMAIN sent))

Chomp(raw) == SubSeq(raw, 1, Len(raw) - 1)

\* the position of the first space of a line (0: the line has none)
FirstSpace(s) ==
    IF \E i \in DOMAIN s : s[i] = " "
      THEN CHOOSE i \in DOMAIN s : s[i] = " " /\ \A k \in 1..(i - 1) : s[k] # " "
      ELSE 0

\* a line that names a file: a code of two characters or more whose second
\* character is 'f', a space, and a path that does not end in '/'
FileLine(raw) ==
    LET s == Chomp(raw)
    IN  /\ FirstSpace(s) >= 3
        /\ s[2] = "f"
        /\ s[Len(s)] # "/"

\* what follows the first space of a line
PathPart(raw) == SubSeq(Chomp(raw), FirstSpace(Chomp(raw)) + 1, Len(Chomp(raw)))

\* the paths of the file lines of an output, in the order of the lines
RECURSIVE FilePaths(_)
FilePaths(lines) ==
    IF lines = << >> THEN << >>
    ELSE (IF FileLine(Head(lines)) THEN <<PathPart(Head(lines))>> ELSE << >>) \o FilePaths(Tail(lines))

\* C25: for every sequence of output lines the candidate list is, in input
\* order, exactly the paths of the lines that split at the first space into a
\* code whose second character is 'f' and a path that does not end in '/';
\* directory and other type codes, empty lines and lines without a space
\* contribute nothing. It holds of the lines read so far at every point of the
\* loop, and of the list returned when the tool exits zero.
C25_ItemizedParsing ==
    /\ SelectSeq(candidates, LAMBDA p : p = << >> \/ p[Len(p)] # "/") = FilePaths(SubSeq(stdout, 1, scan_pos))
    /\ (scan_ret # << >> /\ scan_rc = 0) => scan_ret[2] = FilePaths(stdout)

C25_Witness ==
    /\ Len(stdout) = 3
    /\ stdout[1] = LineFileSpace
    /\ stdout[2] \in {LineDir, LineSymlink, LineFileSlash, LineEmpty, LineNoSpace}
    /\ stdout[3] = LineFileTxt
    /\ scan_ret = <<0, << <<"a", " ", "b">>, <<"a", "/", "c", ".", "t", "x", "t">> >> >>

\* the plain files under the destination of p's task that match an include
\* glob, are not excluded and do not exist at the same path under the source
DestOnly(p) ==
    { f \in Paths : /\ tree[RootOf(Pair(p).dst)][f] # 0
                    /\ Pair(p).dst \in PoolRoots \/ f.dir = Pair(p).dst[Len(Pair(p).dst)]
                    /\ f.ext \in backsync_globs
                    /\ f.ext \notin excludes
                    /\ tree[RootOf(Pair(p).src)][f] = 0 }

\* C21: the candidate list of ReverseScan never holds anything but
\* destination-only files (files under the destination that match an include
\* glob, are not excluded and do not exist at the same relative path under the
\* source), and when the dry run exits zero it holds each of them exactly
\* once; in particular it is empty when the destination holds no such file,
\* as after a forward mirror into an empty root.
C21_DestinationOnly ==
    [][\A p \in Procs :
          (pc[p] = "reverse" /\ pc'[p] # pc[p])
          => /\ { missing'[p][i] : i \in DOMAIN missing'[p] } \subseteq { RelPath(f, Pair(p).dst) : f \in DestOnly(p) }
             /\ rcs'[p].rc2 = 0
                  => /\ { missing'[p][i] : i \in DOMAIN missing'[p] } = { RelPath(f, Pair(p).dst) : f \in DestOnly(p) }
                     /\ Len(missing'[p]) = Cardinality(DestOnly(p))]_vars

C21_Witness ==
    \E p \in Procs :
        /\ pc[p] = "decide"
        /\ mode[p] = 4
        /\ rcs[p].rc = 0
        /\ missing[p] = << <<"z", "z", "/", "y", ".", "M", "P", "4">> >>
        /\ \E f \in Paths : f.stem = "x" /\ tree[MEDIA_POOL_ROOT][f] # 0 /\ tree[dest_media_root][f] # tree[MEDIA_POOL_ROOT][f]
        /\ \E f \in Paths : f.stem = "n" /\ tree[MEDIA_POOL_ROOT][f] = 0 /\ tree[dest_media_root][f] # 0

\* C21, the example: a source holding x.mp4 was mirrored into a destination
\* root that held no file, both tools exited zero, and the list is empty
C21_WitnessMirror ==
    \E p \in Procs :
        /\ pc[p] = "task"
        /\ task[p] = 2
        /\ rcs[p].rc = 0
        /\ rcs[p].rc2 = 0
        /\ missing[p] = << >>
        /\ \A f \in Paths : tree[MEDIA_POOL_ROOT][f] = (IF f.stem = "x" THEN 1 ELSE 0)
        /\ tree[dest_media_root] = tree[MEDIA_POOL_ROOT]

\* C22: every tool invocation of a task (forward sync, reverse dry-run,
\* back-sync) has written a transcript file under
\* <destination_root>/_reports/sync_logs named with the user, the task label
\* and the direction; no tool invocation runs without one.
C22_EveryInvocationLogged ==
    \A p \in Procs : \A t \in ran[p] :
        \E l \in logs :
            /\ l.root = Top(Pairs(mode[p])[t[1]])
            /\ l.user = name
            /\ l.label[1] = Pairs(mode[p])[t[1]].label
            /\ l.label[2] = (CASE t[2] = "forward" -> "forward"
                               [] t[2] = "reverse" -> "reverse"
                               [] t[2] = "back" -> "backsync_mp4")

\* an answer that approves: 'y' or 'yes' once surrounding blanks are dropped
\* and letters are lower-cased
Approves(ans) ==
    \E i, j \in 0..Len(ans) :
        /\ \A k \in 1..i : ans[k] = " "
        /\ \A k \in (Len(ans) - j + 1)..Len(ans) : ans[k] = " "
        /\ i + j <= Len(ans)
        /\ LET core == SubSeq(ans, i + 1, Len(ans) - j)
           IN  \/ Len(core) = 1 /\ core[1] \in {"y", "Y"}
               \/ Len(core) = 3 /\ core[1] \in {"y", "Y"} /\ core[2] \in {"e", "E"} /\ core[3] \in {"s", "S"}

\* C24: the back-sync tool of a task is invoked only if that task's
\* ReverseScan exited zero, produced a non-empty candidate list and the
\* operator approved at the prompt; a ReverseScan that exits non-zero leaves
\* an empty candidate list and never leads to the prompt, and an empty answer
\* at the prompt declines.
C24_BackSyncGuard ==
    [][\A p \in Procs :
          /\ (pc[p] = "reverse" /\ pc'[p] # pc[p] /\ rcs'[p].rc2 # 0)
               => missing'[p] = << >> /\ pc'[p] \in {"task", "release"}
          /\ pc'[p] = "decide" => rcs'[p].rc2 = 0 /\ missing'[p] # << >>
          /\ (pc[p] = "decide" /\ pc'[p] # pc[p])
               => /\ pc'[p] = "back" <=> Approves(answer'[p])
                  /\ answer'[p] = << >> => pc'[p] # "back"
          /\ (pc'[p] = "back" \/ <<task[p], "back">> \in ran'[p] \ ran[p])
               => /\ <<task[p], "reverse">> \in ran[p]
                  /\ rcs[p].rc2 = 0
                  /\ missing[p] # << >>
                  /\ Approves(answer'[p])]_vars

C24_Witness ==
    \E p \in Procs :
        /\ <<1, "back">> \in ran[p]
        /\ answer[p] = <<"Y", "e", "s", " ">>
        /\ Len(missing[p]) = 2

\* C26: the acquire operations of a batch are on pairwise distinct roots, a
\* batch never fails with LockHeld against a sentinel it wrote itself, and
\* when the batch has ended each root it acquired has been released exactly
\* once.
C26_AcquireOnceReleaseOnce ==
    \A p \in Procs :
        /\ \A i, j \in DOMAIN order[p] : i # j => order[p][i] # order[p][j]
        /\ outcome[p] = "LockHeld" => NextRoot(p) \notin wrote[p]
        /\ released[p] <= entered[p]
        /\ pc[p] = "exit" => released[p] = entered[p]

\* C27: from the moment a batch has acquired root R until it releases R, the
\* sentinel at R exists and holds that batch's pid: nothing another
\* invocation does, and no tool invocation of the batch, removes or rewrites it.
C27_HeldSentinelStable ==
    \A p \in Procs : \A r \in Holding(p) : sentinel[r] = p

\* every candidate of p's reverse scan exists under the source root in trees t
CandidatesAtSource(p, t) ==
    \A i \in DOMAIN missing[p] :
        \E f \in Paths : RelPath(f, Pair(p).dst) = missing[p][i] /\ t[RootOf(Pair(p).src)][f] # 0

\* a reverse scan of p's pair finds no candidate in trees t
SecondScanEmpty(p, t) ==
    ~\E f \in Paths : /\ t[RootOf(Pair(p).dst)][f] # 0
                      /\ InSubtree(f, Pair(p).dst)
                      /\ MatchesGlobs(f) /\ ~Excluded(f)
                      /\ t[RootOf(Pair(p).src)][f] = 0

\* a re-run of p's task in trees t changes neither root: its forward sync has
\* no file to create or to update, and its reverse scan finds nothing to copy back
ReRunChangesNothing(p, t) ==
    /\ ForwardWrites(flags, Pair(p).src, t[RootOf(Pair(p).src)], t[RootOf(Pair(p).dst)]) = {}
    /\ SecondScanEmpty(p, t)

\* C29 as stated: when an approved BackSync has exited zero, every candidate
\* of the task's ReverseScan exists under the source root, a second
\* ReverseScan yields the empty list, and a re-run of the whole task changes
\* neither root.
C29_BackSyncConverges ==
    [][\A p \in Procs :
          (pc[p] = "back" /\ pc'[p] # pc[p] /\ rcs'[p].rc3 = 0)
          => /\ CandidatesAtSource(p, tree')
             /\ SecondScanEmpty(p, tree')
             /\ ReRunChangesNothing(p, tree')]_vars

\* C29, amended: when an approved BackSync has exited zero, every candidate
\* of the task's ReverseScan exists under the source root and a second
\* ReverseScan yields the empty list; if the task's forward sync exited zero
\* as well, a re-run of the whole task changes no media file in either root.
C29_ConvergesAfterCompleteForward ==
    [][\A p \in Procs :
          (pc[p] = "back" /\ pc'[p] # pc[p] /\ rcs'[p].rc3 = 0)
          => /\ CandidatesAtSource(p, tree')
             /\ SecondScanEmpty(p, tree')
             /\ rcs'[p].rc = 0 => ReRunChangesNothing(p, tree')]_vars

C29_Witness ==
    \E p \in Procs :
        /\ pc[p] = "release"
        /\ mode[p] = 4
        /\ <<1, "back">> \in ran[p]
        /\ rcs[p] = [rc |-> 0, rc2 |-> 0, rc3 |-> 0]
        /\ missing[p] = << <<"z", "z", "/", "y", ".", "M", "P", "4">> >>
        /\ \E f \in Paths : f.stem = "y" /\ tree[MEDIA_POOL_ROOT][f] = MaxContent
        /\ \E f \in Paths : f.stem = "x" /\ tree[MEDIA_POOL_ROOT][f] = 1 /\ tree[dest_media_root][f] = MaxContent

\* C23: the suffix prompt loop has ended only on the empty input (the final
\* name is the suggested base) or on an input made only of letters, digits,
\* underscore and hyphen (the final name is the base, '_' and that input,
\* character for character as typed); any other input, one with white space
\* included, is asked for again.
C23_SuffixAsTyped ==
    \A r \in Runs :
        ing[r].dailies_roll_name # << >>
        => \/ /\ ihist[r].typed = << >>
              /\ ing[r].dailies_roll_name = ing[r].suggestion_base
           \/ /\ ihist[r].typed # << >>
              /\ \A i \in DOMAIN ihist[r].typed :
                     ihist[r].typed[i] \in SuffixClass
              /\ ing[r].dailies_roll_name = ing[r].suggestion_base \o <<"_">> \o ihist[r].typed

\* the folders of the user's proxy pool that can be packaged
Folders == { <<"f", "1">>, <<"f", "2">> }

\* the runs that transferred folder n successfully
SentBy(n) == { q \in Runs : \E i \in DOMAIN pk[q].transferred : pk[q].transferred[i][1] = n }

\* C30: a run leaves a folder out of its candidates (treats it as already
\* sent) only if an earlier run transferred it successfully, so a folder whose
\* transfer failed is a candidate of the next run; and no folder is
\* transferred into a second bucket: it is in at most one bucket and was
\* transferred at most once.
C30_SentTracking ==
    /\ \A r \in Runs : \A n \in Folders :
          (pk[r].pc # "start" /\ \A i \in DOMAIN pk[r].candidates : pk[r].candidates[i] # n)
          => n \in phist[r].before \/ SentBy(n) \ {r} # {}
    /\ \A n \in Folders :
          /\ n \notin phist[1].before => Cardinality({ b \in DOMAIN sent : n \in sent[b] }) <= 1
          /\ Cardinality(SentBy(n)) <= 1
          /\ n \in phist[1].before => SentBy(n) = {}

====
